---- MODULE Spec2Model ----
(***************************************************************************)
(* Wedding site: the guest gate (auth.ts), the RSVP form (rsvp.ts), the    *)
(* start-up sequence (main.ts), the hash router (router.ts) and the remote *)
(* row store they talk to through supabase-js.                             *)
(*                                                                         *)
(* Two versions of the site are in the sources and both are modelled:      *)
(*   "PasswordOnly"  gate = secret only (src/src/supabase.ts 64-144),      *)
(*                   RSVP keyed by email, checked with .eq (src/src/rsvp.ts)*)
(*   "NameVerified"  gate = secret + invitee lookup (part_002 156-305),    *)
(*                   RSVP keyed by guest name, checked with .ilike         *)
(*                   (part_000)                                            *)
(*                                                                         *)
(* Text is a sequence of one-character strings, so that trimming, case     *)
(* folding and ILIKE pattern matching are computed, not assumed.           *)
(***************************************************************************)
EXTENDS Integers, Sequences, FiniteSets, TLC

(***************************************************************************)
(* Bounds of the model.                                                    *)
(***************************************************************************)
\* how many entries of NameList the users and the guest list draw from
NumNames == 4
\* invitee rows in the remote store
MaxInvitees == 2
\* RSVP rows the remote store may come to hold
MaxRsvps == 2
\* successful submissions of the password-only gate while it animates out
MaxListeners == 2
\* renderDashboard calls in flight on one admin page
MaxRenders == 2
\* add / save / delete calls issued from the admin page of one tab, over all
\* its page loads
MaxCalls == 2
\* invitees added through the admin page
MaxAdds == 1

(***************************************************************************)
(* Text.                                                                   *)
(***************************************************************************)
\* a value no text equals: sessionStorage.getItem's null, an absent field
NULL == <<"NULL">>

Min(a, b) == IF a < b THEN a ELSE b

\* String.prototype.toLowerCase on one character (also the case folding ILIKE applies)
LowerCh(c) == IF c = "A" THEN "a" ELSE IF c = "B" THEN "b" ELSE c

RECURSIVE Lower(_)
Lower(s) == IF s = <<>> THEN <<>> ELSE <<LowerCh(Head(s))>> \o Lower(Tail(s))

RECURSIVE TrimLeft(_)
TrimLeft(s) == IF s # <<>> /\ Head(s) = " " THEN TrimLeft(Tail(s)) ELSE s

RECURSIVE TrimRight(_)
TrimRight(s) ==
  IF s # <<>> /\ s[Len(s)] = " " THEN TrimRight(SubSeq(s, 1, Len(s) - 1)) ELSE s

\* String.prototype.trim
Trim(s) == TrimRight(TrimLeft(s))

(***************************************************************************)
(* The remote store's ILIKE, which .ilike(column, pattern) asks for with   *)
(* the caller's text as the pattern, unescaped: % matches any run of       *)
(* characters, _ any one character, backslash makes the next pattern       *)
(* character literal, and a pattern that ends in a backslash is an error   *)
(* once the matcher gets to it.  Returns "TRUE", "FALSE", "ABORT" (no      *)
(* match, and no later text position can match) or "ERROR".                *)
(***************************************************************************)
RECURSIVE MatchText(_, _), MatchAfterPercent(_, _), MatchScan(_, _, _)
MatchText(t, p) ==
  IF p = <<"%">> THEN "TRUE"
  ELSE IF t # <<>> /\ p # <<>> THEN
    IF p[1] = "\\" THEN
      IF Len(p) = 1 THEN "ERROR"
      ELSE IF p[2] # t[1] THEN "FALSE"
      ELSE MatchText(Tail(t), Tail(Tail(p)))
    ELSE IF p[1] = "%" THEN MatchAfterPercent(t, Tail(p))
    ELSE IF p[1] = "_" THEN MatchText(Tail(t), Tail(p))
    ELSE IF p[1] # t[1] THEN "FALSE"
    ELSE MatchText(Tail(t), Tail(p))
  ELSE IF t # <<>> THEN "FALSE"
  ELSE IF \A i \in 1..Len(p) : p[i] = "%" THEN "TRUE"
  ELSE "ABORT"

\* after a %: further % are skipped, each _ takes one character of text
MatchAfterPercent(t, p) ==
  IF p = <<>> THEN "TRUE"
  ELSE IF p[1] = "%" THEN MatchAfterPercent(t, Tail(p))
  ELSE IF p[1] = "_" THEN
    IF t = <<>> THEN "ABORT" ELSE MatchAfterPercent(Tail(t), Tail(p))
  ELSE IF p[1] = "\\" /\ Len(p) < 2 THEN "ERROR"
  ELSE MatchScan(t, p, IF p[1] = "\\" THEN p[2] ELSE p[1])

\* the first text position from which the rest of the pattern matches
MatchScan(t, p, firstpat) ==
  IF t = <<>> THEN "ABORT"
  ELSE IF t[1] = firstpat /\ MatchText(t, p) # "FALSE" THEN MatchText(t, p)
  ELSE MatchScan(Tail(t), p, firstpat)

\* value ILIKE pattern: both sides case-folded, then matched
ILike(value, pattern) == MatchText(Lower(value), Lower(pattern))


(***************************************************************************)
(* What users type and what the store holds.                               *)
(***************************************************************************)
\* the texts tried as names: casing variants, the ILIKE pattern characters,
\* a backslash
NameList ==
  << <<"a">>, <<"A">>, <<"%">>, <<"\\", "a">>, <<"b">>, <<"_">>, <<"a", "\\">> >>

Names == {NameList[i] : i \in 1..Min(NumNames, Len(NameList))}

\* what can be typed into a text field: a name, blanks, a padded name (fields
\* start out empty)
TypedTexts == Names \cup {<<" ">>, <<" ">> \o NameList[1] \o <<" ">>}

\* import.meta.env.VITE_SITE_PASSWORD
CORRECT_PASSWORD == <<"p", "w">>

PasswordTexts ==
  {CORRECT_PASSWORD, <<" ">> \o CORRECT_PASSWORD, <<"p">>}

EmailTexts == {<<" ">>, <<"a">>, <<"A">>}

Variants == {"PasswordOnly", "NameVerified"}

\* browser tabs, each with its own sessionStorage, DOM and handlers
Tabs == {1, 2}

\* window.location.hash as "#", "/" and a path segment
Hashes ==
  { <<>>, <<"#", "/", "rsvp">>, <<"#", "/", "admin">> }

\* interface Invitee: the guest list holding the names NameList[i], i \in S,
\* with ids in that order.  Last names are as the admin panel stores them:
\* trimmed and not empty.  The first row is a guest with a plus-one.
InviteeTable(S) ==
  {[id |-> Cardinality({j \in S : j <= i}), last_name |-> NameList[i],
    has_plus_one |-> (Cardinality({j \in S : j <= i}) = 1),
    plus_one_name |-> IF Cardinality({j \in S : j <= i}) = 1 THEN <<"b">> ELSE NULL] :
   i \in S}

\* the guest lists the site may be facing
InviteeTables ==
  {InviteeTable(S) :
     S \in {X \in SUBSET (1..Min(NumNames, Len(NameList))) : Cardinality(X) <= MaxInvitees}}

VARIABLES
  variant,   \* which version of the site is deployed
  invitees,  \* remote table invitees
  rsvps,     \* remote table rsvps, in insertion order
  hash,      \* per tab: window.location.hash
  app,       \* per tab: where init() of main.ts stands
  page,      \* per tab: the page section showPage() displays
  session,   \* per tab: sessionStorage
  gate,      \* per tab: the password gate overlay and its submit handler
  rsvp,      \* per tab: the RSVP form and its submit handler
  lastAuth,  \* per tab: the latest of {successful login, logout} (history)
  adm,       \* per tab: the admin page (#admin-content) and its calls in flight
  nextId,    \* remote: the id the invitees table gives to the next inserted row
  config,    \* import.meta.env: the endpoint URL and the anon key of the build
  orphans    \* remote: writes sent by pages that were unloaded before the answer

vars == <<variant, invitees, rsvps, hash, app, page, session, gate, rsvp, lastAuth,
          adm, nextId, config, orphans>>

(***************************************************************************)
(* Session store (auth.ts).                                                *)
(***************************************************************************)
\* an empty sessionStorage: neither STORAGE_KEY nor LAST_NAME_KEY is set
SessionEmpty == [auth |-> "absent", last_name |-> NULL, admin |-> "absent"]

\* isAuthenticated: the flag, and in the name-verified version a non-null name
IsAuthenticated(t) ==
  IF variant = "PasswordOnly"
  THEN session[t].auth = "true"
  ELSE session[t].auth = "true" /\ session[t].last_name # NULL

\* mutant of LoggedOut: only the matched last name is removed
LoggedOutNameOnly(s) == [s EXCEPT !.last_name = NULL]

\* mutant of LoggedOut: only the unlock flag is removed
LoggedOutFlagOnly(s) == [s EXCEPT !.auth = "absent"]

\* logout: removeItem on the keys the version uses
LoggedOut(s) ==
  IF variant = "PasswordOnly"
  THEN [s EXCEPT !.auth = "absent"]
  ELSE [s EXCEPT !.auth = "absent", !.last_name = NULL]

\* mutant of PasswordOk: any non-empty password passes (if (password))
PasswordOkTruthy(password) == password # <<>>

\* password === CORRECT_PASSWORD
PasswordOk(password) == password = CORRECT_PASSWORD

(***************************************************************************)
(* Backend client (supabase.ts).                                           *)
(***************************************************************************)
\* a text that is neither undefined / null nor the empty string
Truthy(text) == text # NULL /\ text # <<>>

\* a build with VITE_SUPABASE_URL and VITE_SUPABASE_ANON_KEY set
ConfigFull == [url |-> <<"u">>, key |-> <<"k">>]

\* the builds: each variable unset (NULL), set to the empty string, or set
Configs == [url : {NULL, <<>>, ConfigFull.url}, key : {NULL, <<>>, ConfigFull.key}]

\* mutant of supabaseCreated: only the URL is looked at
supabaseCreatedUrlOnly(cfg) == Truthy(cfg.url)

\* the module gets past its throw and exports the client
supabaseCreated(cfg) == Truthy(cfg.url) /\ Truthy(cfg.key)

(***************************************************************************)
(* Router (router.ts).                                                     *)
(***************************************************************************)
\* const routes
RoutePaths == {"", "details", "rsvp", "registry", "admin"}

\* getCurrentRoute: drop the '#', then a leading '/'
CurrentRoute(h) ==
  LET noHash == IF h = <<>> THEN <<>> ELSE Tail(h)
      noSlash == IF noHash # <<>> /\ Head(noHash) = "/" THEN Tail(noHash) ELSE noHash
  IN IF noSlash = <<>> THEN "" ELSE Head(noSlash)

\* navigate: the matching route's template, or the first route's
PageFor(h) ==
  IF CurrentRoute(h) \in RoutePaths /\ CurrentRoute(h) # ""
  THEN CurrentRoute(h) ELSE "home"


(***************************************************************************)
(* Remote store queries.                                                   *)
(***************************************************************************)
NoRow == [id |-> 0, last_name |-> NULL, has_plus_one |-> FALSE, plus_one_name |-> NULL]

\* from('invitees').select(...).ilike('last_name', pattern).limit(1): the rows
\* are scanned in no promised order until one matches; the statement fails if
\* the matcher reaches the end of a pattern that ends in a backslash first.
\* The set of answers the store can give: {data: [row]}, {data: []}, {error}.
InviteeLookup(table, pattern) ==
  LET hits == {r \in table : ILike(r.last_name, pattern) = "TRUE"}
      bad == {r \in table : ILike(r.last_name, pattern) = "ERROR"}
  IN {[kind |-> "row", row |-> r] : r \in hits}
       \cup (IF bad # {} THEN {[kind |-> "error", row |-> NoRow]} ELSE {})
       \cup (IF hits = {} /\ bad = {} THEN {[kind |-> "empty", row |-> NoRow]} ELSE {})

(***************************************************************************)
(* The gate overlay (showPasswordGate).                                    *)
(***************************************************************************)
\* no overlay in the document
GateNone ==
  [phase |-> "none", pw |-> <<>>, ln |-> <<>>, error |-> "", btnDisabled |-> FALSE,
   lastName |-> NULL, listeners |-> 0, resolved |-> 0]

\* showPasswordGate: the overlay as rendered, the promise pending
GateOpen == [GateNone EXCEPT !.phase = "open"]

\* the RSVP form before initRsvpForm has run
NoReq == [guest_name |-> NULL, email |-> NULL, attending |-> FALSE,
          plus_one_attending |-> "undefined"]

FormBlank ==
  [init |-> FALSE, authLastName |-> NULL, lookup |-> "none", plusOneShown |-> FALSE,
   guestName |-> <<>>, email |-> <<>>, attending |-> "", plusOne |-> "",
   btnDisabled |-> FALSE, msg |-> "", pc |-> "idle", req |-> NoReq]

\* initRsvpForm: reads the last name stored at login, asks for the invitee's
\* plus-one eligibility when there is one, attaches the submit listener
FormInitialised(s) ==
  IF variant = "PasswordOnly"
  THEN [FormBlank EXCEPT !.init = TRUE]
  ELSE [FormBlank EXCEPT !.init = TRUE,
                         !.authLastName = s.last_name,
                         !.lookup = IF s.last_name # NULL /\ s.last_name # <<>>
                                    THEN "pending" ELSE "none"]

\* the calls in flight once the content is replaced: the elements that
\* started them are no longer in the document
Detached(calls) == [i \in 1..Len(calls) |-> [calls[i] EXCEPT !.live = FALSE]]

\* no .admin-stats block in the document
NoStats == [total |-> -1, attending |-> -1, notAttending |-> -1]

\* #admin-content as the page template has it, before initAdminPage; requested
\* is the tab of the latest renderDashboard call (history)
AdmNone ==
  [view |-> "none", pw |-> <<>>, loginError |-> FALSE,
   rsvpsShown |-> <<>>, inviteesShown |-> {}, rows |-> <<>>,
   newLastName |-> <<>>, newHasPlusOne |-> FALSE, newPlusOneName |-> <<>>,
   addError |-> FALSE, alert |-> "", renders |-> <<>>, fetched |-> <<>>,
   calls |-> <<>>,
   issued |-> 0, stats |-> NoStats, counts |-> <<>>, requested |-> ""]

\* what Promise.all([fetchRsvps(), fetchInvitees()]) of one renderDashboard
\* holds: nothing yet, or the answer of the fetch that came back first
NoFetch == [got |-> "none", rsvps |-> <<>>, invitees |-> {}]

\* renderLoginForm: the login form replaces the content; what is in flight
\* stays (alert holds the last alert() since the content was written)
AdmLoginForm(a) ==
  [AdmNone EXCEPT !.view = "login",
                  !.renders = a.renders, !.fetched = a.fetched,
                  !.calls = Detached(a.calls),
     !.issued = a.issued, !.requested = a.requested]

\* renderDashboard(tab) up to its await: "Loading..." replaces the content and
\* the two fetches are in flight
AdmLoading(a, tab) ==
  [AdmNone EXCEPT !.view = "loading",
                  !.renders = Append(a.renders, tab),
                  !.fetched = Append(a.fetched, NoFetch),
                  !.calls = Detached(a.calls),
     !.issued = a.issued, !.requested = tab]

\* isAdminAuthenticated
IsAdminAuthenticated(t) == session[t].admin = "true"

\* initAdminPage: the dashboard for an admin session, the login form otherwise
AdminInitialised(s) ==
  IF s.admin = "true" THEN AdmLoading(AdmNone, "rsvps") ELSE AdmLoginForm(AdmNone)

\* the writes a page has sent and not yet seen answered when it is unloaded:
\* the insert of the RSVP form, the insert / update / delete calls of the
\* admin page (lookups and fetches change nothing and their answers are lost)
Orphaned(t) ==
  (IF rsvp[t].pc = "insert"
   THEN <<[kind |-> "rsvp", req |-> rsvp[t].req, authLastName |-> rsvp[t].authLastName]>>
   ELSE <<>>)
    \o [i \in 1..Len(adm[t].calls) |-> [kind |-> "call", call |-> Detached(adm[t].calls)[i]]]

\* init() of main.ts skips the gate on the admin route or when authenticated
GateSkipped(t, h) == CurrentRoute(h) = "admin" \/ IsAuthenticated(t)

\* the rest of init() after the gate: initRouter(), initRsvpForm(),
\* initAdminPage()
InitRest(t, h) ==
  /\ app' = [app EXCEPT ![t] = "ready"]
  /\ page' = [page EXCEPT ![t] = PageFor(h)]
  /\ rsvp' = [rsvp EXCEPT ![t] = FormInitialised(session[t])]
  /\ adm' = [adm EXCEPT ![t] = [AdminInitialised(session[t]) EXCEPT !.issued = adm[t].issued]]

\* The document is loaded (or reloaded) at hash h and init() runs up to its
\* first await.  sessionStorage survives a reload, the DOM and handlers do not;
\* lookups and fetches in flight are dropped with the page, writes already
\* sent still reach the store.  (issued is the model's count of calls, kept.)
\* When supabase.ts throws, no module that imports it is evaluated: main.ts
\* never runs and the document stays as served.
Load(t, h) ==
  /\ hash' = [hash EXCEPT ![t] = h]
  /\ orphans' = orphans \o Orphaned(t)
  /\ IF ~supabaseCreated(config)
     THEN /\ app' = [app EXCEPT ![t] = "failed"]
          /\ page' = [page EXCEPT ![t] = "none"]
          /\ rsvp' = [rsvp EXCEPT ![t] = FormBlank]
          /\ gate' = [gate EXCEPT ![t] = GateNone]
          /\ adm' = [adm EXCEPT ![t] = [AdmNone EXCEPT !.issued = adm[t].issued]]
     ELSE IF GateSkipped(t, h)
     THEN /\ InitRest(t, h)
          /\ gate' = [gate EXCEPT ![t] = GateNone]
     ELSE /\ app' = [app EXCEPT ![t] = "gate"]
          /\ page' = [page EXCEPT ![t] = "none"]
          /\ rsvp' = [rsvp EXCEPT ![t] = FormBlank]
          /\ gate' = [gate EXCEPT ![t] = GateOpen]
          /\ adm' = [adm EXCEPT ![t] = [AdmNone EXCEPT !.issued = adm[t].issued]]
  /\ UNCHANGED <<config, nextId, variant, invitees, rsvps, session, lastAuth>>

\* The user follows a link to hash h: navigate() runs if the router listens.
HashChange(t, h) ==
  /\ app[t] # "closed"
  /\ h # hash[t]
  /\ hash' = [hash EXCEPT ![t] = h]
  /\ page' = [page EXCEPT ![t] = IF app[t] = "ready" THEN PageFor(h) ELSE page[t]]
  /\ UNCHANGED <<orphans, config, nextId, adm, variant, invitees, rsvps, app, session, gate, rsvp, lastAuth>>

\* The user fills in the gate's fields (the last name only exists in the
\* name-verified gate).
GateType(t, pw, ln) ==
  /\ gate[t].phase \in {"open", "lookup", "exit"}
  /\ LET field == IF variant = "PasswordOnly" THEN <<>> ELSE ln
     IN /\ <<pw, field>> # <<gate[t].pw, gate[t].ln>>
        /\ gate' = [gate EXCEPT ![t].pw = pw, ![t].ln = field]
  /\ UNCHANGED <<orphans, config, nextId, adm, variant, invitees, rsvps, hash, app, page, session, rsvp, lastAuth>>

\* mutant of LoggedIn: the unlock flag is not written
LoggedInNoFlag(s, matchedLastName) ==
  IF variant = "PasswordOnly" THEN s ELSE [s EXCEPT !.last_name = matchedLastName]

\* sessionStorage.setItem on a successful login
LoggedIn(s, matchedLastName) ==
  IF variant = "PasswordOnly"
  THEN [s EXCEPT !.auth = "true"]
  ELSE [s EXCEPT !.auth = "true", !.last_name = matchedLastName]

\* the overlay starts its exit animation and gains an animationend listener
GateExiting(g) ==
  [g EXCEPT !.phase = "exit", !.listeners = g.listeners + 1]

\* gate submit, password-only version: attemptLogin, then exit or error
GateSubmitPasswordOnly(t) ==
  /\ variant = "PasswordOnly"
  /\ gate[t].phase \in {"open", "exit"}
  /\ gate[t].listeners < MaxListeners
  /\ IF PasswordOk(Trim(gate[t].pw))
     THEN /\ session' = [session EXCEPT ![t] = LoggedIn(session[t], NULL)]
          /\ lastAuth' = [lastAuth EXCEPT ![t] = "login"]
          /\ gate' = [gate EXCEPT ![t] = GateExiting(gate[t])]
     ELSE /\ gate' = [gate EXCEPT ![t].pw = <<>>, ![t].error = "incorrect"]
          /\ UNCHANGED <<session, lastAuth>>
  /\ UNCHANGED <<orphans, config, nextId, adm, variant, invitees, rsvps, hash, app, page, rsvp>>

\* mutant of GateSubmitNameVerified: the button is not disabled during the lookup
GateSubmitNoDisable(t) ==
  /\ variant = "NameVerified"
  /\ gate[t].phase \in {"open", "lookup"}
  /\ ~gate[t].btnDisabled
  /\ gate[t].pw # <<>> /\ gate[t].ln # <<>>
  /\ IF ~PasswordOk(Trim(gate[t].pw))
     THEN gate' = [gate EXCEPT ![t].pw = <<>>, ![t].error = "incorrect",
                               ![t].lastName = Trim(gate[t].ln)]
     ELSE gate' = [gate EXCEPT ![t].phase = "lookup", ![t].error = "",
                               ![t].lastName = Trim(gate[t].ln)]
  /\ UNCHANGED <<orphans, config, nextId, adm, variant, invitees, rsvps, hash, app, page, session, rsvp, lastAuth>>

\* gate submit, name-verified version, up to its await: both fields are
\* `required`, the button is disabled while a submission runs
GateSubmitNameVerified(t) ==
  /\ variant = "NameVerified"
  /\ gate[t].phase = "open"
  /\ ~gate[t].btnDisabled
  /\ gate[t].pw # <<>> /\ gate[t].ln # <<>>
  /\ IF ~PasswordOk(Trim(gate[t].pw))
     THEN gate' = [gate EXCEPT ![t].pw = <<>>, ![t].error = "incorrect",
                               ![t].btnDisabled = FALSE,
                               ![t].lastName = Trim(gate[t].ln)]
     ELSE gate' = [gate EXCEPT ![t].phase = "lookup", ![t].error = "",
                               ![t].btnDisabled = TRUE,
                               ![t].lastName = Trim(gate[t].ln)]
  /\ UNCHANGED <<orphans, config, nextId, adm, variant, invitees, rsvps, hash, app, page, session, rsvp, lastAuth>>

\* mutant of GateFailed: the catch block forgets to re-enable the button
GateFailedStuck(g) == [g EXCEPT !.phase = "open", !.error = "generic"]

\* the catch block of the gate's submit handler
GateFailed(g) == [g EXCEPT !.phase = "open", !.error = "generic", !.btnDisabled = FALSE]

\* the invitee lookup does not come back (network) or comes back with an error
GateLookupFail(t) ==
  /\ gate[t].phase = "lookup"
  /\ gate' = [gate EXCEPT ![t] = GateFailed(gate[t])]
  /\ UNCHANGED <<orphans, config, nextId, adm, variant, invitees, rsvps, hash, app, page, session, rsvp, lastAuth>>

\* the invitee lookup is answered by the store
GateLookupAnswer(t) ==
  /\ gate[t].phase = "lookup"
  /\ \E ans \in InviteeLookup(invitees, gate[t].lastName) :
       CASE ans.kind = "error" ->
              /\ gate' = [gate EXCEPT ![t] = GateFailed(gate[t])]
              /\ UNCHANGED <<session, lastAuth>>
         [] ans.kind = "empty" ->
              /\ gate' = [gate EXCEPT ![t].phase = "open", ![t].error = "not_found",
                                      ![t].btnDisabled = FALSE]
              /\ UNCHANGED <<session, lastAuth>>
         [] OTHER ->
              /\ session' = [session EXCEPT ![t] = LoggedIn(session[t], ans.row.last_name)]
              /\ lastAuth' = [lastAuth EXCEPT ![t] = "login"]
              /\ gate' = [gate EXCEPT ![t] = GateExiting(gate[t])]
  /\ UNCHANGED <<orphans, config, nextId, adm, variant, invitees, rsvps, hash, app, page, rsvp>>

\* resolve(): a pending promise settles and its continuation is run, a settled
\* promise is unaffected; resolved counts the times init() resumed
Resolved(g) == IF g.resolved = 0 THEN [g EXCEPT !.resolved = 1] ELSE g

\* overlay.remove(): the overlay's fields and error text leave the document
GateRemoved(g) ==
  [g EXCEPT !.phase = "removed", !.pw = <<>>, !.ln = <<>>, !.error = ""]

\* animationend on the overlay: every listener removes the overlay and calls
\* resolve(); the promise settles once and init() resumes after its await
GateAnimationEnd(t) ==
  /\ gate[t].phase = "exit"
  /\ gate' = [gate EXCEPT ![t] = Resolved(GateRemoved(gate[t]))]
  /\ InitRest(t, hash[t])
  /\ UNCHANGED <<orphans, config, nextId, variant, invitees, rsvps, hash, session, lastAuth>>

\* logout(): exported by auth.ts, called by nothing in the site.  The auth
\* module of the name-verified version imports supabase.ts, so in a build
\* that failed to start it cannot be evaluated and logout() cannot be
\* reached; the auth module of the email version imports nothing and its
\* logout() runs in such a build too.
Logout(t) ==
  /\ app[t] # "closed"
  /\ app[t] = "failed" => variant = "PasswordOnly"
  /\ session' = [session EXCEPT ![t] = LoggedOut(session[t])]
  /\ lastAuth' = [lastAuth EXCEPT ![t] = "logout"]
  /\ UNCHANGED <<orphans, config, nextId, adm, variant, invitees, rsvps, hash, app, page, gate, rsvp>>


(***************************************************************************)
(* The RSVP form (initRsvpForm and its submit handler).                    *)
(***************************************************************************)
\* the form can be used: init() is through, the RSVP page is the one shown
FormUsable(t) == app[t] = "ready" /\ rsvp[t].init /\ page[t] = "rsvp"

\* the values the submit handler reads from the form
FormValues(f) ==
  [guest_name |-> Trim(f.guestName),
   email |-> IF variant = "PasswordOnly" THEN Trim(f.email) ELSE NULL,
   attending |-> (f.attending = "true"),
   plus_one_attending |->
     IF variant = "PasswordOnly" THEN "undefined"
     ELSE IF f.plusOne = "true" THEN "true"
     ELSE IF f.plusOne = "false" THEN "false" ELSE "undefined"]

\* mutant of RequiredMissing: the email is not looked at
RequiredMissingNameOnly(v) == v.guest_name = <<>>

\* "Basic validation": !guestName, and in the email version || !email
RequiredMissing(v) ==
  IF variant = "PasswordOnly"
  THEN v.guest_name = <<>> \/ v.email = <<>>
  ELSE v.guest_name = <<>>

\* mutant of RsvpRow: the last name is taken from what the guest typed
RsvpRowTypedName(v, authLastName) ==
  [guest_name |-> v.guest_name,
   email |-> v.email,
   last_name |-> IF variant = "PasswordOnly" THEN NULL ELSE v.guest_name,
   attending |-> v.attending,
   plus_one_attending |-> v.plus_one_attending]

\* the row submitRsvp inserts
RsvpRow(v, authLastName) ==
  [guest_name |-> v.guest_name,
   email |-> v.email,
   last_name |-> IF variant = "PasswordOnly" THEN NULL
                 ELSE IF authLastName = NULL THEN <<>> ELSE authLastName,
   attending |-> v.attending,
   plus_one_attending |-> v.plus_one_attending]

\* checkDuplicate against the rows the store holds: .eq('email', email) in the
\* email version, .ilike('guest_name', name) in the name version, limit(1).
\* The set of outcomes: "dup" (true), "none" (false), "error" (it throws).
CheckDuplicate(table, v) ==
  LET rows == {table[i] : i \in 1..Len(table)}
      hits == IF variant = "PasswordOnly"
              THEN {r \in rows : r.email = v.email}
              ELSE {r \in rows : ILike(r.guest_name, v.guest_name) = "TRUE"}
      bad == IF variant = "PasswordOnly" THEN {}
             ELSE {r \in rows : ILike(r.guest_name, v.guest_name) = "ERROR"}
  IN (IF hits # {} THEN {"dup"} ELSE {})
       \cup (IF bad # {} THEN {"error"} ELSE {})
       \cup (IF hits = {} /\ bad = {} THEN {"none"} ELSE {})

\* requests of the RSVP forms that may still add a row
PendingSubmissions ==
  Cardinality({t \in Tabs : rsvp[t].pc # "idle"})
    + Cardinality({i \in 1..Len(orphans) : orphans[i].kind = "rsvp"})

\* mutant of FormIdle: the form is reset whenever the handler ends
FormIdleReset(f, msg) ==
  [f EXCEPT !.pc = "idle", !.btnDisabled = FALSE, !.msg = msg, !.req = NoReq,
            !.guestName = <<>>, !.email = <<>>, !.attending = "", !.plusOne = "",
            !.plusOneShown = FALSE]

\* the handler is done: the button is enabled again, its locals are gone
FormIdle(f, msg) ==
  [f EXCEPT !.pc = "idle", !.btnDisabled = FALSE, !.msg = msg, !.req = NoReq]

\* form.reset(), the plus-one section hidden, the success message
FormAfterSuccess(f) ==
  [FormIdle(f, IF f.req.attending THEN "success_yes" ELSE "success_no")
     EXCEPT !.guestName = <<>>, !.email = <<>>, !.attending = "", !.plusOne = "",
            !.plusOneShown = FALSE]

\* the guest edits the name field (only the submit button is disabled while
\* a submission is in flight)
RsvpTypeName(t, txt) ==
  /\ FormUsable(t)
  /\ txt # rsvp[t].guestName
  /\ rsvp' = [rsvp EXCEPT ![t].guestName = txt]
  /\ UNCHANGED <<orphans, config, nextId, adm, variant, invitees, rsvps, hash, app, page, session, gate, lastAuth>>

\* the guest edits the email field (email version)
RsvpTypeEmail(t, txt) ==
  /\ FormUsable(t)
  /\ variant = "PasswordOnly"
  /\ txt # rsvp[t].email
  /\ rsvp' = [rsvp EXCEPT ![t].email = txt]
  /\ UNCHANGED <<orphans, config, nextId, adm, variant, invitees, rsvps, hash, app, page, session, gate, lastAuth>>

\* the guest picks attending yes / no
RsvpChooseAttending(t, v) ==
  /\ FormUsable(t)
  /\ v # rsvp[t].attending
  /\ rsvp' = [rsvp EXCEPT ![t].attending = v]
  /\ UNCHANGED <<orphans, config, nextId, adm, variant, invitees, rsvps, hash, app, page, session, gate, lastAuth>>

\* the guest picks plus-one yes / no, in the section shown to eligible guests
RsvpChoosePlusOne(t, v) ==
  /\ FormUsable(t)
  /\ rsvp[t].plusOneShown
  /\ v # rsvp[t].plusOne
  /\ rsvp' = [rsvp EXCEPT ![t].plusOne = v]
  /\ UNCHANGED <<orphans, config, nextId, adm, variant, invitees, rsvps, hash, app, page, session, gate, lastAuth>>

\* mutant of RsvpEligibility: the section is shown for any invitee found
RsvpEligibilityAnyRow(t) ==
  /\ rsvp[t].lookup = "pending"
  /\ \E ans \in InviteeLookup(invitees, rsvp[t].authLastName)
                  \cup {[kind |-> "error", row |-> NoRow]} :
       rsvp' = [rsvp EXCEPT ![t].lookup = "done",
                            ![t].plusOneShown =
                               IF ans.kind = "row" THEN TRUE ELSE rsvp[t].plusOneShown]
  /\ UNCHANGED <<orphans, config, nextId, adm, variant, invitees, rsvps, hash, app, page, session, gate, lastAuth>>

\* the plus-one eligibility lookup of initRsvpForm is answered (or is not:
\* then nothing is shown)
RsvpEligibility(t) ==
  /\ rsvp[t].lookup = "pending"
  /\ \E ans \in InviteeLookup(invitees, rsvp[t].authLastName)
                  \cup {[kind |-> "error", row |-> NoRow]} :
       rsvp' = [rsvp EXCEPT ![t].lookup = "done",
                            ![t].plusOneShown =
                               IF ans.kind = "row" /\ ans.row.has_plus_one
                               THEN TRUE ELSE rsvp[t].plusOneShown]
  /\ UNCHANGED <<orphans, config, nextId, adm, variant, invitees, rsvps, hash, app, page, session, gate, lastAuth>>

\* submit of the RSVP form, up to the handler's first await
RsvpSubmit(t) ==
  /\ FormUsable(t)
  /\ ~rsvp[t].btnDisabled
  /\ Len(rsvps) + PendingSubmissions < MaxRsvps
  /\ LET v == FormValues(rsvp[t])
     IN IF RequiredMissing(v)
        THEN rsvp' = [rsvp EXCEPT ![t] = FormIdle(rsvp[t], "required")]
        ELSE rsvp' = [rsvp EXCEPT ![t].pc = "check", ![t].btnDisabled = TRUE,
                                  ![t].req = v]
  /\ UNCHANGED <<orphans, config, nextId, adm, variant, invitees, rsvps, hash, app, page, session, gate, lastAuth>>

\* checkDuplicate does not come back: catch, finally
RsvpCheckFail(t) ==
  /\ rsvp[t].pc = "check"
  /\ rsvp' = [rsvp EXCEPT ![t] = FormIdle(rsvp[t], "generic")]
  /\ UNCHANGED <<orphans, config, nextId, adm, variant, invitees, rsvps, hash, app, page, session, gate, lastAuth>>

\* checkDuplicate is answered; on "none" the handler goes on to submitRsvp
RsvpCheckAnswer(t) ==
  /\ rsvp[t].pc = "check"
  /\ \E out \in CheckDuplicate(rsvps, rsvp[t].req) :
       rsvp' = [rsvp EXCEPT ![t] =
                  IF out = "dup" THEN FormIdle(rsvp[t], "duplicate")
                  ELSE IF out = "error" THEN FormIdle(rsvp[t], "generic")
                  ELSE [rsvp[t] EXCEPT !.pc = "insert"]]
  /\ UNCHANGED <<orphans, config, nextId, adm, variant, invitees, rsvps, hash, app, page, session, gate, lastAuth>>

\* mutant of RsvpInsertOk: the insert is refused when the checked key is taken
\* by now, as if the check and the insert were one transaction
RsvpInsertOkUnique(t) ==
  /\ rsvp[t].pc = "insert"
  /\ CheckDuplicate(rsvps, rsvp[t].req) = {"none"}
  /\ rsvps' = Append(rsvps, RsvpRow(rsvp[t].req, rsvp[t].authLastName))
  /\ rsvp' = [rsvp EXCEPT ![t] = FormAfterSuccess(rsvp[t])]
  /\ UNCHANGED <<orphans, config, nextId, adm, variant, invitees, hash, app, page, session, gate, lastAuth>>

\* submitRsvp's insert is carried out and acknowledged
RsvpInsertOk(t) ==
  /\ rsvp[t].pc = "insert"
  /\ rsvps' = Append(rsvps, RsvpRow(rsvp[t].req, rsvp[t].authLastName))
  /\ rsvp' = [rsvp EXCEPT ![t] = FormAfterSuccess(rsvp[t])]
  /\ UNCHANGED <<orphans, config, nextId, adm, variant, invitees, hash, app, page, session, gate, lastAuth>>

\* submitRsvp's insert fails: catch, finally
RsvpInsertFail(t) ==
  /\ rsvp[t].pc = "insert"
  /\ rsvp' = [rsvp EXCEPT ![t] = FormIdle(rsvp[t], "generic")]
  /\ UNCHANGED <<orphans, config, nextId, adm, variant, invitees, rsvps, hash, app, page, session, gate, lastAuth>>

(***************************************************************************)
(* The admin page (admin.ts).                                              *)
(***************************************************************************)
ADMIN_PASSWORD == <<"a", "d">>

\* raw values of #admin-password-input: the admin secret with a blank, the
\* guest secret
AdminPasswordTexts == {<<" ">> \o ADMIN_PASSWORD, CORRECT_PASSWORD}

\* raw values typed into a row's plus-one name input
PlusOneTexts == {<<"\"", "c">>, <<" ">>}

\* what the add-invitee form can hold when it is submitted:
\* <<#new-last-name, #new-has-plus-one, #new-plus-one-name>>
AddInputs ==
  { << <<"A">>, TRUE, <<"\"", "c">> >>, << <<" ">>, FALSE, <<>> >> }

\* sessionStorage.setItem / removeItem of ADMIN_STORAGE_KEY
AdminLoggedIn(s) == [s EXCEPT !.admin = "true"]

\* mutant of AdminLoggedOut: sessionStorage.clear()
AdminLoggedOutAll(s) == SessionEmpty

AdminLoggedOut(s) == [s EXCEPT !.admin = "absent"]

\* password === ADMIN_PASSWORD
AdminPasswordOk(password) == password = ADMIN_PASSWORD

\* the admin page is the one shown and initAdminPage has run
AdminOnPage(t) == app[t] = "ready" /\ page[t] = "admin"

\* value.trim() || null
TrimOrNull(text) == IF Trim(text) = <<>> THEN NULL ELSE Trim(text)

RECURSIVE AttrValue(_)
\* the value an <input value="..."> gets when the text is interpolated into
\* the markup unescaped: the attribute ends at the first double quote
AttrValue(text) ==
  IF text = <<>> \/ Head(text) = "\"" THEN <<>>
  ELSE <<Head(text)>> \o AttrValue(Tail(text))

\* one table row of renderInviteesTab as the document holds it
RowShown(inv) ==
  [checked |-> inv.has_plus_one,
   name |-> AttrValue(IF inv.plus_one_name = NULL THEN <<>> ELSE inv.plus_one_name),
   disabled |-> ~inv.has_plus_one]

\* fetchRsvps: order('created_at', descending)
RECURSIVE Reverse(_)
Reverse(seq) == IF seq = <<>> THEN <<>> ELSE Append(Reverse(Tail(seq)), Head(seq))

\* mutant of renderStats: the plus-ones are counted as the attending
renderStatsPlusOnes(fetchedRsvps) ==
  [total |-> Len(fetchedRsvps),
   attending |-> Len(SelectSeq(fetchedRsvps, LAMBDA r : r.plus_one_attending = "true")),
   notAttending |-> Len(SelectSeq(fetchedRsvps, LAMBDA r : ~r.attending))]

\* renderStats: rsvps.length, filter(r => r.attending), filter(r => !r.attending)
renderStats(fetchedRsvps) ==
  [total |-> Len(fetchedRsvps),
   attending |-> Len(SelectSeq(fetchedRsvps, LAMBDA r : r.attending)),
   notAttending |-> Len(SelectSeq(fetchedRsvps, LAMBDA r : ~r.attending))]

RECURSIVE rsvpCounts(_)
\* the Map renderDashboard builds from the fetched RSVPs, row after row: the
\* lower-cased last name of each row that has one, to the number of such rows
rsvpCounts(fetchedRsvps) ==
  IF fetchedRsvps = <<>> THEN <<>>
  ELSE LET n == Len(fetchedRsvps)
           m == rsvpCounts(SubSeq(fetchedRsvps, 1, n - 1))
           r == fetchedRsvps[n]
           key == Lower(r.last_name)
       IN IF Truthy(r.last_name)
          THEN [k \in DOMAIN m \cup {key} |->
                  IF k = key THEN (IF key \in DOMAIN m THEN m[key] ELSE 0) + 1
                  ELSE m[k]]
          ELSE m

\* mutant of rsvdCount: the Map is asked for the last name as it is stored
rsvdCountExact(inv, counts) ==
  IF inv.last_name \in DOMAIN counts THEN counts[inv.last_name] ELSE 0

\* renderInviteesTab: rsvpCounts.get(inv.last_name.toLowerCase()) ?? 0
rsvdCount(inv, counts) ==
  IF Lower(inv.last_name) \in DOMAIN counts THEN counts[Lower(inv.last_name)] ELSE 0

\* the content renderDashboard writes once both fetches are answered
AdmDashboard(a, tab, fetchedRsvps, fetchedInvitees) ==
  [AdmNone EXCEPT
     !.view = tab,
     !.stats = IF tab = "rsvps" THEN renderStats(fetchedRsvps) ELSE NoStats,
     !.counts = IF tab = "invitees"
                THEN [id \in {r.id : r \in fetchedInvitees} |->
                        rsvdCount(CHOOSE r \in fetchedInvitees : r.id = id,
                                  rsvpCounts(fetchedRsvps))]
                ELSE <<>>,
     !.requested = a.requested,
     !.rsvpsShown = fetchedRsvps,
     !.inviteesShown = IF tab = "invitees" THEN fetchedInvitees ELSE {},
     !.rows = IF tab = "invitees"
              THEN [id \in {r.id : r \in fetchedInvitees} |->
                      RowShown(CHOOSE r \in fetchedInvitees : r.id = id)]
              ELSE <<>>,
     !.renders = a.renders, !.fetched = a.fetched, !.calls = Detached(a.calls),
     !.issued = a.issued]

\* a sequence without its i-th element
Without(seq, i) == SubSeq(seq, 1, i - 1) \o SubSeq(seq, i + 1, Len(seq))

\* the request objects of the three mutations
AddCall(lastName, hasPlusOne, plusOneName) ==
  [kind |-> "add", id |-> 0, last_name |-> lastName, has_plus_one |-> hasPlusOne,
   plus_one_name |-> plusOneName, live |-> TRUE]

SaveCall(id, hasPlusOne, plusOneName) ==
  [kind |-> "save", id |-> id, last_name |-> NULL, has_plus_one |-> hasPlusOne,
   plus_one_name |-> plusOneName, live |-> TRUE]

DeleteCall(id) ==
  [kind |-> "delete", id |-> id, last_name |-> NULL, has_plus_one |-> FALSE,
   plus_one_name |-> NULL, live |-> TRUE]

\* the invitees table after the store has carried out a call
Inserted(table, c, id) ==
  table \cup {[id |-> id, last_name |-> c.last_name, has_plus_one |-> c.has_plus_one,
               plus_one_name |-> c.plus_one_name]}

\* mutant of Updated: the update without its eq('id', id) filter
UpdatedEveryRow(table, c) ==
  {[r EXCEPT !.has_plus_one = c.has_plus_one, !.plus_one_name = c.plus_one_name] :
     r \in table}

\* update({has_plus_one, plus_one_name}).eq('id', id)
Updated(table, c) ==
  {IF r.id = c.id
   THEN [r EXCEPT !.has_plus_one = c.has_plus_one, !.plus_one_name = c.plus_one_name]
   ELSE r : r \in table}

\* mutant of Deleted: the delete filters on the last name of the row
DeletedByLastName(table, c) ==
  {r \in table :
     \A d \in table : d.id = c.id => Lower(r.last_name) # Lower(d.last_name)}

\* delete().eq('id', id)
Deleted(table, c) == {r \in table : r.id # c.id}

\* the admin types into #admin-password-input
AdminTypePassword(t, pw) ==
  /\ AdminOnPage(t) /\ adm[t].view = "login"
  /\ pw # adm[t].pw
  /\ adm' = [adm EXCEPT ![t].pw = pw]
  /\ UNCHANGED <<orphans, config, nextId, variant, invitees, rsvps, hash, app, page, session, gate, rsvp, lastAuth>>

\* submit of the login form: adminLogin, then renderDashboard() or the error
AdminLoginSubmit(t) ==
  /\ AdminOnPage(t) /\ adm[t].view = "login"
  /\ Len(adm[t].renders) < MaxRenders
  /\ IF AdminPasswordOk(Trim(adm[t].pw))
     THEN /\ session' = [session EXCEPT ![t] = AdminLoggedIn(session[t])]
          /\ adm' = [adm EXCEPT ![t] = AdmLoading(adm[t], "rsvps")]
     ELSE /\ adm' = [adm EXCEPT ![t].pw = <<>>, ![t].loginError = TRUE]
          /\ UNCHANGED session
  /\ UNCHANGED <<orphans, config, nextId, variant, invitees, rsvps, hash, app, page, gate, rsvp, lastAuth>>

\* click on #admin-logout: adminLogout(), renderLoginForm()
AdminLogoutClick(t) ==
  /\ AdminOnPage(t)
  /\ session' = [session EXCEPT ![t] = AdminLoggedOut(session[t])]
  /\ adm' = [adm EXCEPT ![t] = AdmLoginForm(adm[t])]
  /\ UNCHANGED <<orphans, config, nextId, variant, invitees, rsvps, hash, app, page, gate, rsvp, lastAuth>>

\* mutant of AdminTabClick: the tab is drawn from what the page already holds
AdminTabClickCached(t, tab) ==
  /\ AdminOnPage(t) /\ adm[t].view \in {"rsvps", "invitees"}
  /\ Len(adm[t].renders) < MaxRenders
  /\ adm' = [adm EXCEPT ![t] =
               [AdmDashboard(adm[t], tab, adm[t].rsvpsShown, adm[t].inviteesShown)
                  EXCEPT !.requested = tab]]
  /\ UNCHANGED <<orphans, config, nextId, variant, invitees, rsvps, hash, app, page, session, gate, rsvp, lastAuth>>

\* click on a tab button: renderDashboard(tab)
AdminTabClick(t, tab) ==
  /\ AdminOnPage(t) /\ adm[t].view \in {"rsvps", "invitees"}
  /\ Len(adm[t].renders) < MaxRenders
  /\ adm' = [adm EXCEPT ![t] = AdmLoading(adm[t], tab)]
  /\ UNCHANGED <<orphans, config, nextId, variant, invitees, rsvps, hash, app, page, session, gate, rsvp, lastAuth>>

\* fetchRsvps (order by created_at, descending) or fetchInvitees of the i-th
\* renderDashboard in flight is answered while the other is outstanding:
\* Promise.all keeps the answer
AdminFetchAnswer(t, i, which) ==
  /\ i \in 1..Len(adm[t].renders)
  /\ adm[t].fetched[i].got = "none"
  /\ adm' = [adm EXCEPT ![t].fetched[i] =
               IF which = "rsvps"
               THEN [NoFetch EXCEPT !.got = "rsvps", !.rsvps = Reverse(rsvps)]
               ELSE [NoFetch EXCEPT !.got = "invitees", !.invitees = invitees]]
  /\ UNCHANGED <<orphans, config, nextId, variant, invitees, rsvps, hash, app, page, session, gate, rsvp, lastAuth>>

\* const [rsvps, invitees] = await Promise.all(...) of the i-th
\* renderDashboard in flight, at the moment its outstanding fetch is answered:
\* the answer kept, and the table the store holds now
FetchedRsvps(t, i) ==
  IF adm[t].fetched[i].got = "rsvps" THEN adm[t].fetched[i].rsvps ELSE Reverse(rsvps)

FetchedInvitees(t, i) ==
  IF adm[t].fetched[i].got = "invitees" THEN adm[t].fetched[i].invitees ELSE invitees

\* the outstanding fetch of the i-th renderDashboard in flight is answered:
\* Promise.all resolves with both answers, the dashboard is written into
\* #admin-content and wired
AdminRenderDone(t, i) ==
  /\ i \in 1..Len(adm[t].renders)
  /\ adm[t].fetched[i].got # "none"
  /\ adm' = [adm EXCEPT ![t] =
               AdmDashboard([adm[t] EXCEPT !.renders = Without(adm[t].renders, i),
                                           !.fetched = Without(adm[t].fetched, i)],
                            adm[t].renders[i],
                            FetchedRsvps(t, i), FetchedInvitees(t, i))]
  /\ UNCHANGED <<orphans, config, nextId, variant, invitees, rsvps, hash, app, page, session, gate, rsvp, lastAuth>>

\* a fetch of the i-th renderDashboard in flight fails: the catch block
AdminRenderFail(t, i) ==
  /\ i \in 1..Len(adm[t].renders)
  /\ adm' = [adm EXCEPT ![t] =
               [AdmNone EXCEPT !.view = "failed",
                               !.renders = Without(adm[t].renders, i),
                               !.fetched = Without(adm[t].fetched, i),
                               !.calls = Detached(adm[t].calls),
                               !.issued = adm[t].issued,
                               !.requested = adm[t].requested]]
  /\ UNCHANGED <<orphans, config, nextId, variant, invitees, rsvps, hash, app, page, session, gate, rsvp, lastAuth>>

\* change on a row's plus-one checkbox: the name input follows it
AdminToggle(t, id) ==
  /\ AdminOnPage(t) /\ adm[t].view = "invitees"
  /\ id \in DOMAIN adm[t].rows
  /\ adm' = [adm EXCEPT ![t].rows[id].checked = ~adm[t].rows[id].checked,
                        ![t].rows[id].disabled = adm[t].rows[id].checked]
  /\ UNCHANGED <<orphans, config, nextId, variant, invitees, rsvps, hash, app, page, session, gate, rsvp, lastAuth>>

\* the admin types into a row's plus-one name input (when it is enabled)
AdminTypePlusOne(t, id, txt) ==
  /\ AdminOnPage(t) /\ adm[t].view = "invitees"
  /\ id \in DOMAIN adm[t].rows
  /\ ~adm[t].rows[id].disabled
  /\ txt # adm[t].rows[id].name
  /\ adm' = [adm EXCEPT ![t].rows[id].name = txt]
  /\ UNCHANGED <<orphans, config, nextId, variant, invitees, rsvps, hash, app, page, session, gate, rsvp, lastAuth>>

\* click on a row's Save button, up to the await
AdminSaveClick(t, id) ==
  /\ AdminOnPage(t) /\ adm[t].view = "invitees"
  /\ id \in DOMAIN adm[t].rows
  /\ adm[t].issued < MaxCalls
  /\ adm' = [adm EXCEPT ![t].issued = adm[t].issued + 1,
                        ![t].calls =
               Append(adm[t].calls,
                      SaveCall(id, adm[t].rows[id].checked,
                               TrimOrNull(adm[t].rows[id].name)))]
  /\ UNCHANGED <<orphans, config, nextId, variant, invitees, rsvps, hash, app, page, session, gate, rsvp, lastAuth>>

\* mutant of AdminDeleteClick: the answer of confirm() is ignored
AdminDeleteClickAnyway(t, id, confirmed) ==
  /\ AdminOnPage(t) /\ adm[t].view = "invitees"
  /\ id \in DOMAIN adm[t].rows
  /\ adm[t].issued < MaxCalls
  /\ adm' = [adm EXCEPT ![t].issued = adm[t].issued + 1,
                        ![t].calls = Append(adm[t].calls, DeleteCall(id))]
  /\ UNCHANGED <<orphans, config, nextId, variant, invitees, rsvps, hash, app, page, session, gate, rsvp, lastAuth>>

\* click on a row's Delete button: confirm(), and if confirmed the call
AdminDeleteClick(t, id, confirmed) ==
  /\ AdminOnPage(t) /\ adm[t].view = "invitees"
  /\ id \in DOMAIN adm[t].rows
  /\ adm[t].issued < MaxCalls
  /\ adm' = IF confirmed
            THEN [adm EXCEPT ![t].issued = adm[t].issued + 1,
                             ![t].calls = Append(adm[t].calls, DeleteCall(id))]
            ELSE adm
  /\ UNCHANGED <<orphans, config, nextId, variant, invitees, rsvps, hash, app, page, session, gate, rsvp, lastAuth>>

\* the admin fills in the add-invitee form
AdminTypeAdd(t, in) ==
  /\ AdminOnPage(t) /\ adm[t].view = "invitees"
  /\ in # <<adm[t].newLastName, adm[t].newHasPlusOne, adm[t].newPlusOneName>>
  /\ adm' = [adm EXCEPT ![t].newLastName = in[1], ![t].newHasPlusOne = in[2],
                        ![t].newPlusOneName = in[3]]
  /\ UNCHANGED <<orphans, config, nextId, variant, invitees, rsvps, hash, app, page, session, gate, rsvp, lastAuth>>

\* submit of the add-invitee form (#new-last-name is `required`), up to the
\* await
AdminAddSubmit(t) ==
  /\ AdminOnPage(t) /\ adm[t].view = "invitees"
  /\ adm[t].newLastName # <<>>
  /\ adm[t].issued < MaxCalls
  /\ adm' = IF Trim(adm[t].newLastName) = <<>>
            THEN adm
            ELSE [adm EXCEPT ![t].issued = adm[t].issued + 1,
                             ![t].calls =
                    Append(adm[t].calls,
                           AddCall(Trim(adm[t].newLastName), adm[t].newHasPlusOne,
                                   TrimOrNull(adm[t].newPlusOneName)))]
  /\ UNCHANGED <<orphans, config, nextId, variant, invitees, rsvps, hash, app, page, session, gate, rsvp, lastAuth>>

\* the i-th call in flight is carried out by the store and answered without
\* error: the handler goes on to renderDashboard('invitees')
AdminCallOk(t, i) ==
  /\ i \in 1..Len(adm[t].calls)
  /\ Len(adm[t].renders) < MaxRenders
  /\ LET c == adm[t].calls[i] IN
       /\ c.kind = "add" => nextId < NumNames + 1 + MaxAdds
       /\ invitees' = CASE c.kind = "add" -> Inserted(invitees, c, nextId)
                        [] c.kind = "save" -> Updated(invitees, c)
                        [] OTHER -> Deleted(invitees, c)
       /\ nextId' = IF c.kind = "add" THEN nextId + 1 ELSE nextId
  /\ adm' = [adm EXCEPT ![t] =
               AdmLoading([adm[t] EXCEPT !.calls = Without(adm[t].calls, i)],
                          "invitees")]
  /\ UNCHANGED <<orphans, config, variant, rsvps, hash, app, page, session, gate, rsvp, lastAuth>>

\* the i-th call in flight is answered with an error: the inline error of the
\* add form (if the form is still in the document), an alert for save / delete
AdminCallFail(t, i) ==
  /\ i \in 1..Len(adm[t].calls)
  /\ LET c == adm[t].calls[i] IN
       adm' = [adm EXCEPT
                 ![t].calls = Without(adm[t].calls, i),
                 ![t].addError = IF c.kind = "add" /\ c.live THEN TRUE
                                 ELSE adm[t].addError,
                 ![t].alert = IF c.kind = "save" THEN "save_failed"
                              ELSE IF c.kind = "delete" THEN "delete_failed"
                              ELSE adm[t].alert]
  /\ UNCHANGED <<orphans, config, nextId, variant, invitees, rsvps, hash, app, page, session, gate, rsvp, lastAuth>>

\* the store carries out the i-th write of an unloaded page; no handler is
\* left to receive the answer
OrphanLands(i) ==
  /\ i \in 1..Len(orphans)
  /\ LET o == orphans[i] IN
       IF o.kind = "rsvp"
       THEN /\ rsvps' = Append(rsvps, RsvpRow(o.req, o.authLastName))
            /\ UNCHANGED <<invitees, nextId>>
       ELSE /\ o.call.kind = "add" => nextId < NumNames + 1 + MaxAdds
            /\ invitees' = CASE o.call.kind = "add" -> Inserted(invitees, o.call, nextId)
                             [] o.call.kind = "save" -> Updated(invitees, o.call)
                             [] OTHER -> Deleted(invitees, o.call)
            /\ nextId' = IF o.call.kind = "add" THEN nextId + 1 ELSE nextId
            /\ UNCHANGED rsvps
  /\ orphans' = Without(orphans, i)
  /\ UNCHANGED <<config, variant, hash, app, page, session, gate, rsvp, lastAuth, adm>>

\* the store rejects the i-th write of an unloaded page
OrphanFails(i) ==
  /\ i \in 1..Len(orphans)
  /\ orphans' = Without(orphans, i)
  /\ UNCHANGED <<config, nextId, variant, invitees, rsvps, hash, app, page, session, gate, rsvp, lastAuth, adm>>

(***************************************************************************)
(* Specifications.                                                         *)
(***************************************************************************)
\* a deployment, no tab opened yet (the email version has no invitees table)
Init ==
  /\ variant \in Variants
  /\ invitees \in IF variant = "PasswordOnly" THEN {{}} ELSE InviteeTables
  /\ rsvps = <<>>
  /\ hash = [t \in Tabs |-> <<>>]
  /\ app = [t \in Tabs |-> "closed"]
  /\ page = [t \in Tabs |-> "none"]
  /\ session = [t \in Tabs |-> SessionEmpty]
  /\ gate = [t \in Tabs |-> GateNone]
  /\ rsvp = [t \in Tabs |-> FormBlank]
  /\ lastAuth = [t \in Tabs |-> "none"]
  /\ adm = [t \in Tabs |-> AdmNone]
  /\ nextId = NumNames + 1
  /\ config = ConfigFull
  /\ orphans = <<>>

GateNext(t) ==
  \/ \E h \in Hashes : Load(t, h)
  \/ \E h \in Hashes : HashChange(t, h)
  \/ \E pw \in PasswordTexts, ln \in TypedTexts : GateType(t, pw, ln)
  \/ GateSubmitPasswordOnly(t)
  \/ GateSubmitNameVerified(t)
  \/ GateLookupFail(t)
  \/ GateLookupAnswer(t)
  \/ GateAnimationEnd(t)

\* what the guest of the whole-site specifications types as a name: a plain
\* name, a name with a backslash, blanks
GuestTexts == {NameList[1], <<"\\", "a">>, <<" ">>}

RsvpNext(t) ==
  \/ \E txt \in GuestTexts : RsvpTypeName(t, txt)
  \/ \E txt \in EmailTexts : RsvpTypeEmail(t, txt)
  \/ RsvpEligibility(t)
  \/ RsvpSubmit(t)
  \/ RsvpCheckFail(t)
  \/ RsvpCheckAnswer(t)
  \/ RsvpInsertOk(t)
  \/ RsvpInsertFail(t)

\* the store handles a write of a page that was unloaded before the answer
OrphanNext == \E i \in 1..(MaxRsvps + MaxCalls) : OrphanLands(i) \/ OrphanFails(i)

\* one guest, one tab, the site as main.ts wires it (nothing calls logout)
Next == GateNext(1) \/ RsvpNext(1) \/ OrphanNext

Spec == Init /\ [][Next]_vars

\* the auth module on its own: page loads, the gate, the one request that
\* initRsvpForm makes from the session store, and the exported logout() called
\* at any time (the RSVP submit handler never touches the session store)
NextAuthApi == GateNext(1) \/ RsvpEligibility(1) \/ Logout(1)

\* any build, with or without its endpoint URL and anon key, opened in a tab
\* whose session store is empty or holds what an earlier login left
InitAuthApi ==
  /\ variant \in Variants
  /\ invitees \in IF variant = "PasswordOnly" THEN {{}} ELSE InviteeTables
  /\ rsvps = <<>>
  /\ hash = [t \in Tabs |-> <<>>]
  /\ app = [t \in Tabs |-> "closed"]
  /\ page = [t \in Tabs |-> "none"]
  /\ \E s \in {SessionEmpty}
             \cup (IF variant = "PasswordOnly" THEN {LoggedIn(SessionEmpty, NULL)}
                   ELSE {LoggedIn(SessionEmpty, r.last_name) : r \in invitees}) :
       session = [t \in Tabs |-> IF t = 1 THEN s ELSE SessionEmpty]
  /\ gate = [t \in Tabs |-> GateNone]
  /\ rsvp = [t \in Tabs |-> FormBlank]
  /\ lastAuth = [t \in Tabs |-> IF session[t].auth = "true" THEN "login" ELSE "none"]
  /\ adm = [t \in Tabs |-> AdmNone]
  /\ nextId = NumNames + 1
  /\ config \in Configs
  /\ orphans = <<>>

SpecAuthApi == InitAuthApi /\ [][NextAuthApi]_vars


(***************************************************************************)
(* Two guests at their RSVP forms at the same time.  Both tabs start where *)
(* a guest stands after passing the gate and opening the RSVP page: the    *)
(* guest list holds "a", the name-verified gate matched it (typing the     *)
(* pattern % does), the plus-one lookup has been answered.                 *)
(***************************************************************************)
RaceTexts == {<<"a">>, <<"A">>}

InitRace ==
  /\ variant \in Variants
  /\ invitees = IF variant = "PasswordOnly" THEN {} ELSE InviteeTable({1})
  /\ rsvps = <<>>
  /\ hash = [t \in Tabs |-> <<"#", "/", "rsvp">>]
  /\ app = [t \in Tabs |-> "ready"]
  /\ page = [t \in Tabs |-> "rsvp"]
  /\ session = [t \in Tabs |-> LoggedIn(SessionEmpty, NameList[1])]
  /\ gate = [t \in Tabs |->
               [GateNone EXCEPT !.phase = "removed", !.listeners = 1, !.resolved = 1,
                                !.btnDisabled = (variant = "NameVerified"),
                                !.lastName = IF variant = "PasswordOnly"
                                             THEN NULL ELSE <<"%">>]]
  /\ rsvp = [t \in Tabs |->
               [FormInitialised(session[t]) EXCEPT
                  !.lookup = IF variant = "PasswordOnly" THEN "none" ELSE "done",
                  !.plusOneShown = (variant = "NameVerified")]]
  /\ lastAuth = [t \in Tabs |-> "login"]
  /\ adm = [t \in Tabs |-> AdmLoginForm(AdmNone)]
  /\ nextId = NumNames + 1
  /\ config = ConfigFull
  /\ orphans = <<>>

NextRace ==
  \E t \in Tabs :
    \/ \E txt \in RaceTexts : RsvpTypeName(t, txt)
    \/ \E txt \in RaceTexts : RsvpTypeEmail(t, txt)
    \/ RsvpSubmit(t)
    \/ RsvpCheckFail(t)
    \/ RsvpCheckAnswer(t)
    \/ RsvpInsertOk(t)
    \/ RsvpInsertFail(t)

SpecRace == InitRace /\ [][NextRace]_vars

\* the tab-1 half of InitRace, as the one-tab specification reaches it
RaceStart ==
  /\ variant = "NameVerified" /\ invitees = InviteeTable({1}) /\ rsvps = <<>>
  /\ hash[1] = <<"#", "/", "rsvp">> /\ app[1] = "ready" /\ page[1] = "rsvp"
  /\ session[1] = LoggedIn(SessionEmpty, NameList[1])
  /\ gate[1] = [GateNone EXCEPT !.phase = "removed", !.listeners = 1, !.resolved = 1,
                                !.btnDisabled = TRUE, !.lastName = <<"%">>]
  /\ rsvp[1] = [FormInitialised(session[1]) EXCEPT !.lookup = "done",
                                                   !.plusOneShown = TRUE]

\* one guest filling in the whole form, radio buttons included, from the same
\* start (the second tab stays idle)
NextForm ==
  \/ \E txt \in TypedTexts : RsvpTypeName(1, txt)
  \/ \E txt \in EmailTexts : RsvpTypeEmail(1, txt)
  \/ RsvpSubmit(1)
  \/ RsvpCheckFail(1)
  \/ RsvpCheckAnswer(1)
  \/ RsvpInsertOk(1)
  \/ RsvpInsertFail(1)
  \/ \E v \in {"true", "false"} : RsvpChooseAttending(1, v)
  \/ \E v \in {"true", "false"} : RsvpChoosePlusOne(1, v)

SpecForm == InitRace /\ [][NextForm]_vars


(***************************************************************************)
(* A guest who has passed the gate opens the RSVP page in the same tab     *)
(* (the session store survives the reload): the guest list holds "a" with  *)
(* a plus-one and "b" without, the session holds one of the two names.     *)
(***************************************************************************)
PlusOneGuests ==
  {[id |-> 1, last_name |-> <<"a">>, has_plus_one |-> TRUE, plus_one_name |-> <<"b">>],
   [id |-> 2, last_name |-> <<"b">>, has_plus_one |-> FALSE, plus_one_name |-> NULL]}

InitPlusOne ==
  /\ variant \in Variants
  /\ invitees = IF variant = "PasswordOnly" THEN {} ELSE PlusOneGuests
  /\ rsvps = <<>>
  /\ hash = [t \in Tabs |-> <<>>]
  /\ app = [t \in Tabs |-> "closed"]
  /\ page = [t \in Tabs |-> "none"]
  /\ session \in {[t \in Tabs |-> LoggedIn(SessionEmpty, r.last_name)] :
                    r \in PlusOneGuests}
  /\ gate = [t \in Tabs |-> GateNone]
  /\ rsvp = [t \in Tabs |-> FormBlank]
  /\ lastAuth = [t \in Tabs |-> "login"]
  /\ adm = [t \in Tabs |-> AdmNone]
  /\ nextId = NumNames + 1
  /\ config = ConfigFull
  /\ orphans = <<>>

\* the guest opens (or reloads) the site at #/rsvp
RsvpOpen(t) == Load(t, <<"#", "/", "rsvp">>)

NextPlusOne ==
  \/ RsvpOpen(1)
  \/ RsvpEligibility(1)
  \/ \E txt \in GuestTexts : RsvpTypeName(1, txt)
  \/ \E txt \in EmailTexts : RsvpTypeEmail(1, txt)
  \/ \E v \in {"true", "false"} : RsvpChooseAttending(1, v)
  \/ \E v \in {"true", "false"} : RsvpChoosePlusOne(1, v)
  \/ RsvpSubmit(1)
  \/ RsvpCheckFail(1)
  \/ RsvpCheckAnswer(1)
  \/ RsvpInsertOk(1)
  \/ RsvpInsertFail(1)
  \/ OrphanNext

SpecPlusOne == InitPlusOne /\ [][NextPlusOne]_vars


(***************************************************************************)
(* The admin page of the invitee version, loaded once in a tab whose       *)
(* session store may hold the admin flag of an earlier login: one invitee  *)
(* with a plus-one on the guest list, two RSVPs already in.                *)
(***************************************************************************)
AdminRsvps ==
  << [guest_name |-> <<"a">>, email |-> NULL, last_name |-> <<"a">>,
      attending |-> TRUE, plus_one_attending |-> "true"],
     [guest_name |-> <<"b">>, email |-> NULL, last_name |-> <<>>,
      attending |-> FALSE, plus_one_attending |-> "undefined"] >>

InitAdmin ==
  /\ variant = "NameVerified"
  /\ invitees = InviteeTable({1})
  /\ rsvps = AdminRsvps
  /\ hash = [t \in Tabs |-> <<>>]
  /\ app = [t \in Tabs |-> "closed"]
  /\ page = [t \in Tabs |-> "none"]
  /\ session \in {[t \in Tabs |-> SessionEmpty],
                  [t \in Tabs |-> IF t = 1 THEN AdminLoggedIn(SessionEmpty)
                                   ELSE SessionEmpty]}
  /\ gate = [t \in Tabs |-> GateNone]
  /\ rsvp = [t \in Tabs |-> FormBlank]
  /\ lastAuth = [t \in Tabs |-> "none"]
  /\ adm = [t \in Tabs |-> AdmNone]
  /\ nextId = NumNames + 1
  /\ config = ConfigFull
  /\ orphans = <<>>

\* the admin opens the site at #/admin in a tab
AdminOpen(t) == app[t] = "closed" /\ Load(t, <<"#", "/", "admin">>)

AdminNext(t) ==
  \/ AdminOpen(t)
  \/ \E pw \in AdminPasswordTexts : AdminTypePassword(t, pw)
  \/ AdminLoginSubmit(t)
  \/ AdminLogoutClick(t)
  \/ \E tab \in {"rsvps", "invitees"} : AdminTabClick(t, tab)
  \/ \E i \in 1..MaxRenders, which \in {"rsvps", "invitees"} : AdminFetchAnswer(t, i, which)
  \/ \E i \in 1..MaxRenders : AdminRenderDone(t, i)
  \/ \E i \in 1..MaxRenders : AdminRenderFail(t, i)
  \/ \E id \in 1..(NumNames + MaxAdds) : AdminToggle(t, id)
  \/ \E id \in 1..(NumNames + MaxAdds), txt \in PlusOneTexts : AdminTypePlusOne(t, id, txt)
  \/ \E id \in 1..(NumNames + MaxAdds) : AdminSaveClick(t, id)
  \/ \E id \in 1..(NumNames + MaxAdds), ok \in BOOLEAN : AdminDeleteClick(t, id, ok)
  \/ \E in \in AddInputs : AdminTypeAdd(t, in)
  \/ AdminAddSubmit(t)
  \/ \E i \in 1..MaxCalls : AdminCallOk(t, i)
  \/ \E i \in 1..MaxCalls : AdminCallFail(t, i)

NextAdmin == AdminNext(1)

SpecAdmin == InitAdmin /\ [][NextAdmin]_vars

\* The Invitees tab of a logged-in admin whose page may be loaded again at
\* any time, also while an add, save or delete is in flight.
AdminReload(t) == Load(t, <<"#", "/", "admin">>)

InitReload == InitAdmin /\ IsAdminAuthenticated(1)

NextReload ==
  \/ AdminReload(1)
  \/ \E tab \in {"rsvps", "invitees"} : AdminTabClick(1, tab)
  \/ \E i \in 1..MaxRenders, which \in {"rsvps", "invitees"} : AdminFetchAnswer(1, i, which)
  \/ \E i \in 1..MaxRenders : AdminRenderDone(1, i)
  \/ \E id \in 1..(NumNames + MaxAdds) : AdminToggle(1, id)
  \/ \E id \in 1..(NumNames + MaxAdds) : AdminSaveClick(1, id)
  \/ \E id \in 1..(NumNames + MaxAdds), ok \in BOOLEAN : AdminDeleteClick(1, id, ok)
  \/ \E in \in AddInputs : AdminTypeAdd(1, in)
  \/ AdminAddSubmit(1)
  \/ \E i \in 1..MaxCalls : AdminCallOk(1, i)
  \/ \E i \in 1..MaxCalls : AdminCallFail(1, i)
  \/ OrphanNext

SpecReload == InitReload /\ [][NextReload]_vars

(***************************************************************************)
(* The dashboard beside a guest: tab 1 is the admin page of a logged-in    *)
(* admin, tab 2 a guest at the RSVP form after passing the gate.  The      *)
(* guest list holds "a", "b" and "A"; one RSVP without a last name is in.  *)
(***************************************************************************)
DashGuests ==
  PlusOneGuests
    \cup {[id |-> 3, last_name |-> <<"A">>, has_plus_one |-> FALSE, plus_one_name |-> NULL]}

DashTexts == {<<"a">>, <<"A">>, <<"%">>}

InitDash ==
  /\ variant = "NameVerified"
  /\ invitees = DashGuests
  /\ rsvps = <<AdminRsvps[2]>>
  /\ hash = [t \in Tabs |-> IF t = 1 THEN <<>> ELSE <<"#", "/", "rsvp">>]
  /\ app = [t \in Tabs |-> IF t = 1 THEN "closed" ELSE "ready"]
  /\ page = [t \in Tabs |-> IF t = 1 THEN "none" ELSE "rsvp"]
  /\ \E r \in PlusOneGuests :
       /\ session = [t \in Tabs |-> IF t = 1 THEN AdminLoggedIn(SessionEmpty)
                                    ELSE LoggedIn(SessionEmpty, r.last_name)]
       /\ gate = [t \in Tabs |->
                    IF t = 1 THEN GateNone
                    ELSE [GateNone EXCEPT !.phase = "removed", !.listeners = 1,
                                          !.resolved = 1, !.btnDisabled = TRUE,
                                          !.lastName = r.last_name]]
       /\ rsvp = [t \in Tabs |->
                    IF t = 1 THEN FormBlank
                    ELSE [FormInitialised(LoggedIn(SessionEmpty, r.last_name)) EXCEPT
                            !.lookup = "done", !.plusOneShown = r.has_plus_one]]
  /\ lastAuth = [t \in Tabs |-> IF t = 1 THEN "none" ELSE "login"]
  /\ adm = [t \in Tabs |-> IF t = 1 THEN AdmNone ELSE AdmLoginForm(AdmNone)]
  /\ nextId = NumNames + 1
  /\ config = ConfigFull
  /\ orphans = <<>>

NextDash ==
  \/ AdminOpen(1)
  \/ \E tab \in {"rsvps", "invitees"} : AdminTabClick(1, tab)
  \/ \E i \in 1..MaxRenders, which \in {"rsvps", "invitees"} : AdminFetchAnswer(1, i, which)
  \/ \E i \in 1..MaxRenders : AdminRenderDone(1, i)
  \/ \E i \in 1..MaxRenders : AdminRenderFail(1, i)
  \/ \E txt \in DashTexts : RsvpTypeName(2, txt)
  \/ \E v \in {"true", "false"} : RsvpChooseAttending(2, v)
  \/ RsvpSubmit(2)
  \/ RsvpCheckFail(2)
  \/ RsvpCheckAnswer(2)
  \/ RsvpInsertOk(2)
  \/ RsvpInsertFail(2)

SpecDash == InitDash /\ [][NextDash]_vars

(***************************************************************************)
(* Any build of the invitee version, with or without its endpoint URL and  *)
(* anon key, opened at the RSVP page or the admin page by a new visitor or *)
(* in a tab whose session store holds the flags of an earlier visit; then  *)
(* every path to a select, insert, update or delete.                       *)
(***************************************************************************)
InitConfig ==
  /\ variant = "NameVerified"
  /\ invitees = PlusOneGuests
  /\ rsvps = <<>>
  /\ hash = [t \in Tabs |-> <<>>]
  /\ app = [t \in Tabs |-> "closed"]
  /\ page = [t \in Tabs |-> "none"]
  /\ session \in {[t \in Tabs |-> SessionEmpty],
                  [t \in Tabs |-> AdminLoggedIn(LoggedIn(SessionEmpty, <<"a">>))]}
  /\ gate = [t \in Tabs |-> GateNone]
  /\ rsvp = [t \in Tabs |-> FormBlank]
  /\ lastAuth = [t \in Tabs |-> IF session[t].auth = "true" THEN "login" ELSE "none"]
  /\ adm = [t \in Tabs |-> AdmNone]
  /\ nextId = NumNames + 1
  /\ config \in Configs
  /\ orphans = <<>>

\* the site is opened in a tab, or loaded again after it failed to start
SiteOpen(t) ==
  /\ app[t] \in {"closed", "failed"}
  /\ \E h \in {<<"#", "/", "rsvp">>, <<"#", "/", "admin">>} : Load(t, h)

NextConfig ==
  \/ SiteOpen(1)
  \/ GateType(1, CORRECT_PASSWORD, <<"a">>)
  \/ GateSubmitNameVerified(1)
  \/ GateLookupAnswer(1)
  \/ GateAnimationEnd(1)
  \/ RsvpEligibility(1)
  \/ \E txt \in DashTexts : RsvpTypeName(1, txt)
  \/ RsvpSubmit(1)
  \/ RsvpCheckAnswer(1)
  \/ RsvpInsertOk(1)
  \/ \E tab \in {"rsvps", "invitees"} : AdminTabClick(1, tab)
  \/ \E i \in 1..MaxRenders, which \in {"rsvps", "invitees"} : AdminFetchAnswer(1, i, which)
  \/ \E i \in 1..MaxRenders : AdminRenderDone(1, i)
  \/ \E id \in 1..(NumNames + MaxAdds) : AdminSaveClick(1, id)
  \/ \E id \in 1..(NumNames + MaxAdds), ok \in BOOLEAN : AdminDeleteClick(1, id, ok)
  \/ \E in \in AddInputs : AdminTypeAdd(1, in)
  \/ AdminAddSubmit(1)
  \/ \E i \in 1..MaxCalls : AdminCallOk(1, i)

SpecConfig == InitConfig /\ [][NextConfig]_vars

\* the two gates side by side: the guest gate with logout(), and the admin
\* login and logout of the same tab
NextGates ==
  \/ NextAuthApi
  \/ \E pw \in AdminPasswordTexts : AdminTypePassword(1, pw)
  \/ AdminLoginSubmit(1)
  \/ AdminLogoutClick(1)
  \/ \E i \in 1..MaxRenders, which \in {"rsvps", "invitees"} : AdminFetchAnswer(1, i, which)
  \/ \E i \in 1..MaxRenders : AdminRenderDone(1, i)
  \/ \E i \in 1..MaxRenders : AdminRenderFail(1, i)

SpecGates == InitAuthApi /\ [][NextGates]_vars

(***************************************************************************)
(* Properties.                                                             *)
(***************************************************************************)
\* some invitee's last name equals the text, ignoring case
OnGuestList(text) == \E r \in invitees : Lower(r.last_name) = Lower(text)

\* a step of the gate's submit handler (either version) in tab t
GateSubmitStep(t) == GateSubmitPasswordOnly(t) \/ GateSubmitNameVerified(t)

\* C1: a gate submission whose (trimmed) secret is not the expected one leaves
\* every tab's session store as it was and issues no invitee lookup, whatever
\* last name was typed.
C1_WrongSecretKeepsSession ==
  [][\A t \in Tabs :
       (GateSubmitStep(t) /\ Trim(gate[t].pw) # CORRECT_PASSWORD)
         => /\ session' = session
            /\ gate'[t].phase = gate[t].phase
            /\ gate'[t].phase # "lookup"]_vars

\* C1 witness: a wrong secret was submitted together with a last name that is
\* on the guest list; the gate reports it and the session store is empty
C1_Witness ==
  /\ gate[1].error = "incorrect" /\ gate[1].phase = "open"
  /\ variant = "NameVerified" /\ OnGuestList(gate[1].lastName)
  /\ session[1] = SessionEmpty

\* C2 (as claimed): the name-verified gate has unlocked only if the trimmed
\* last name that was submitted equals some invitee's last name ignoring case.
C2_UnlockOnlyForListedName ==
  \A t \in Tabs :
    (variant = "NameVerified" /\ gate[t].phase \in {"exit", "removed"})
      => OnGuestList(gate[t].lastName)

\* C3 (as claimed): whenever the router and the RSVP form are initialised, the
\* guest session is authenticated.
C3_InteractiveOnlyIfAuthenticated ==
  \A t \in Tabs : (app[t] = "ready" /\ rsvp[t].init) => IsAuthenticated(t)

\* C4: isAuthenticated() is true exactly when the latest of {successful login,
\* logout} was a successful login.
C4_AuthenticatedIffLastWasLogin ==
  \A t \in Tabs : IsAuthenticated(t) <=> lastAuth[t] = "login"

\* C4 witness: a login came through (the gate resolved and was removed) and a
\* logout followed
C4_Witness ==
  /\ gate[1].phase = "removed" /\ gate[1].resolved = 1
  /\ lastAuth[1] = "logout" /\ ~IsAuthenticated(1)

\* C5 (as claimed): a submission with the correct secret and a casing variant
\* of an invitee's last name is never answered "not on the guest list", and a
\* gate that has unlocked left the flag and an invitee's stored last name in
\* the session store.
C5_ListedNameUnlocks ==
  \A t \in Tabs :
    /\ gate[t].error = "not_found" => ~OnGuestList(gate[t].lastName)
    /\ (variant = "NameVerified" /\ gate[t].phase \in {"exit", "removed"})
         => /\ session[t].auth = "true"
            /\ \E r \in invitees : r.last_name = session[t].last_name

\* C6: the unlock signal resolves at most once, and only from a gate that is
\* animating out after a successful submission; at that moment the session
\* store holds the unlock flag.  No other step resolves it.
C6_OneShotUnlock ==
  [][\A t \in Tabs :
       /\ gate'[t].resolved <= 1
       /\ gate'[t].resolved > gate[t].resolved
            => /\ gate[t].phase = "exit" /\ gate[t].listeners >= 1
               /\ gate'[t].phase = "removed"
               /\ session'[t].auth = "true"
               /\ app[t] = "gate" /\ app'[t] = "ready"]_vars

\* C6 witness: the signal resolved after a failed and then a successful
\* submission of the name-verified gate
C6_Witness ==
  /\ gate[1].resolved = 1 /\ gate[1].phase = "removed"
  /\ variant = "NameVerified" /\ gate[1].lastName = <<"A">>
  /\ session[1].last_name = <<"a">>

\* two rows carry the same duplicate key, one the check does detect
SameKeyRows(r1, r2) ==
  IF variant = "PasswordOnly"
  THEN r1.email = r2.email
  ELSE ILike(r1.guest_name, r2.guest_name) = "TRUE"
         /\ ILike(r2.guest_name, r1.guest_name) = "TRUE"

\* C7: nothing ties the insert to the check: a session whose duplicate check
\* has passed can carry out its insert whatever other sessions have inserted
\* since, so two sessions can both pass the check and both insert.
C7_InsertNotTiedToCheck ==
  \A t \in Tabs : rsvp[t].pc = "insert" => ENABLED RsvpInsertOk(t)

\* C7 witness: both sessions have inserted a row with the same key
C7_Witness ==
  /\ Len(rsvps) = 2 /\ SameKeyRows(rsvps[1], rsvps[2])
  /\ \A t \in Tabs : rsvp[t].msg \in {"success_yes", "success_no"}

\* C8 (as claimed): after a successful submit, checkDuplicate with the same
\* key returns true.
C8_SubmitThenCheckIsDuplicate ==
  \A i \in 1..Len(rsvps) : CheckDuplicate(rsvps, rsvps[i]) = {"dup"}

\* C9 (as claimed): a detected duplicate leaves the form idle with its button
\* enabled and the warning shown, and one session never leaves two rows for
\* the same guest name, in any casing.
C9_OneRowPerGuestName ==
  /\ \A t \in Tabs :
       (rsvp[t].msg = "duplicate" /\ rsvp[t].pc = "idle") => ~rsvp[t].btnDisabled
  /\ variant = "NameVerified" =>
       \A i, j \in 1..Len(rsvps) :
         i # j => Lower(rsvps[i].guest_name) # Lower(rsvps[j].guest_name)

\* the required fields of the form in tab t are empty after trimming
RequiredFieldEmpty(t) ==
  \/ Trim(rsvp[t].guestName) = <<>>
  \/ variant = "PasswordOnly" /\ Trim(rsvp[t].email) = <<>>

\* C10: a submission whose required field is empty after trimming issues no
\* request (no duplicate check, no insert), shows the error message and
\* leaves the submit button enabled.
C10_EmptyRequiredFieldStaysLocal ==
  [][\A t \in Tabs :
       (RsvpSubmit(t) /\ RequiredFieldEmpty(t))
         => /\ rsvps' = rsvps
            /\ rsvp'[t].pc = "idle"
            /\ rsvp'[t].msg = "required"
            /\ ~rsvp'[t].btnDisabled]_vars

\* C10 witness: the email version refused a form with a name but a blank email
C10_Witness ==
  /\ variant = "PasswordOnly" /\ rsvp[1].msg = "required" /\ rsvp[1].pc = "idle"
  /\ Trim(rsvp[1].guestName) # <<>> /\ rsvp[1].email = <<" ">>
  /\ rsvps = <<>>


\* C12: in the name-verified gate the submit button is disabled while a
\* lookup is in flight and stays disabled once a submission has succeeded, and
\* a submission can start only from an open gate whose button is enabled; so
\* no second lookup can start while one is in flight.
C12_GateSubmissionsSerialized ==
  \A t \in Tabs :
    variant = "NameVerified" =>
      /\ gate[t].phase \in {"lookup", "exit", "removed"} => gate[t].btnDisabled
      /\ ENABLED GateSubmitNameVerified(t)
           => gate[t].phase = "open" /\ ~gate[t].btnDisabled

\* C12 witness: the gate is animating out after a success, the visitor has
\* typed a new password and last name, and the button is still disabled
C12_Witness ==
  /\ variant = "NameVerified" /\ gate[1].phase = "exit" /\ gate[1].btnDisabled
  /\ gate[1].pw = <<"p">> /\ gate[1].ln # <<>>
  /\ ~ENABLED GateSubmitNameVerified(1)

\* a step in which the lookup of tab t ends without a matching row
GateLookupFailedStep(t) ==
  GateLookupFail(t) \/ (GateLookupAnswer(t) /\ gate'[t].phase # "exit")

\* C13: in the name-verified gate a lookup that finds no row or fails leaves
\* every session store unchanged, shows an inline error, leaves the unlock
\* signal unresolved and re-enables the button; and an open gate showing such
\* an error accepts the next submission as soon as both fields are filled in.
C13_FailedLookupIsRetryable ==
  /\ [][\A t \in Tabs :
          GateLookupFailedStep(t)
            => /\ session' = session
               /\ gate'[t].error \in {"not_found", "generic"}
               /\ gate'[t].resolved = 0 /\ gate[t].resolved = 0
               /\ gate'[t].phase = "open"
               /\ ~gate'[t].btnDisabled]_vars
  /\ [](\A t \in Tabs :
          (gate[t].phase = "open" /\ gate[t].error \in {"not_found", "generic"}
             /\ gate[t].pw # <<>> /\ gate[t].ln # <<>>)
            => ENABLED GateSubmitNameVerified(t))

\* C13 witness: a name that is not on the list was refused with the correct
\* secret; nothing is stored, the signal is pending, the button is enabled
C13_Witness ==
  /\ variant = "NameVerified" /\ gate[1].phase = "open"
  /\ gate[1].error = "not_found" /\ ~OnGuestList(gate[1].lastName)
  /\ ~gate[1].btnDisabled /\ gate[1].resolved = 0
  /\ session[1] = SessionEmpty /\ invitees # {}

\* a step in which a remote call of the RSVP submit handler of tab t fails
RsvpRemoteFailedStep(t) ==
  \/ RsvpCheckFail(t)
  \/ RsvpInsertFail(t)
  \/ RsvpCheckAnswer(t) /\ rsvp'[t].pc = "idle" /\ rsvp'[t].msg = "generic"

\* C14: a failed duplicate check or a failed insert leaves the RSVP table, the
\* form's fields and its plus-one section as they were, shows the generic
\* error and re-enables the submit button.
C14_RsvpFailureKeepsForm ==
  [][\A t \in Tabs :
       RsvpRemoteFailedStep(t)
         => /\ rsvps' = rsvps
            /\ rsvp'[t].guestName = rsvp[t].guestName
            /\ rsvp'[t].email = rsvp[t].email
            /\ rsvp'[t].attending = rsvp[t].attending
            /\ rsvp'[t].plusOne = rsvp[t].plusOne
            /\ rsvp'[t].plusOneShown = rsvp[t].plusOneShown
            /\ rsvp'[t].msg = "generic"
            /\ rsvp'[t].pc = "idle" /\ ~rsvp'[t].btnDisabled]_vars

\* C14 witness: a filled-in form with the plus-one section shown, after a
\* failed remote call
C14_Witness ==
  /\ rsvp[1].msg = "generic" /\ rsvp[1].pc = "idle" /\ ~rsvp[1].btnDisabled
  /\ rsvp[1].guestName # <<>> /\ rsvp[1].attending = "true"
  /\ rsvp[1].plusOne = "false" /\ rsvp[1].plusOneShown


\* C11 (as claimed): no control has two of its remote calls in flight: the
\* buttons of the gate and of the RSVP form are disabled while their call is
\* pending, and no two pending calls of the admin page come from the same
\* button (same action, same row) of the document as it stands.
C11_OneCallPerControl ==
  \A t \in Tabs :
    /\ gate[t].phase = "lookup" => gate[t].btnDisabled
    /\ rsvp[t].pc # "idle" => rsvp[t].btnDisabled
    /\ \A i, j \in 1..Len(adm[t].calls) :
         (i # j /\ adm[t].calls[i].live /\ adm[t].calls[j].live)
           => <<adm[t].calls[i].kind, adm[t].calls[i].id>>
                # <<adm[t].calls[j].kind, adm[t].calls[j].id>>

\* the i-th call in flight of tab t is of this kind and is answered without
\* error / with an error in this step
CallOkStep(t, i, kind) ==
  AdminCallOk(t, i) /\ adm[t].calls[i].kind = kind

CallFailStep(t, i, kind) ==
  AdminCallFail(t, i) /\ adm[t].calls[i].kind = kind

\* the i-th write of an unloaded page is a call of this kind and the store
\* carries it out in this step
OrphanOkStep(i, kind) ==
  OrphanLands(i) /\ orphans[i].kind = "call" /\ orphans[i].call.kind = kind

\* C15: a successful delete, answered to the page or carried out after the
\* page was loaded again, removes exactly the invitee row with the id of the
\* call; every other invitee row and every RSVP row stays as it was.
C15_DeleteRemovesOneRow ==
  [][/\ \A t \in Tabs, i \in 1..MaxCalls :
          CallOkStep(t, i, "delete")
            => /\ invitees' = {r \in invitees : r.id # adm[t].calls[i].id}
               /\ rsvps' = rsvps
     /\ \A i \in 1..(MaxRsvps + MaxCalls) :
          OrphanOkStep(i, "delete")
            => /\ invitees' = {r \in invitees : r.id # orphans[i].call.id}
               /\ rsvps' = rsvps]_vars

\* C15 witness: the first invitee, whose last name an RSVP row carries, was
\* deleted while an added invitee with the same name in another casing stays
C15_Witness ==
  /\ \A r \in invitees : r.id # 1
  /\ \E r \in invitees : r.id = NumNames + 1 /\ r.last_name = <<"A">>
  /\ rsvps = AdminRsvps /\ rsvps[1].last_name = <<"a">>
  /\ adm[1].view = "invitees" /\ adm[1].inviteesShown = invitees

\* the delete calls among the calls in flight of tab t
DeleteCalls(a) == {i \in 1..Len(a.calls) : a.calls[i].kind = "delete"}

\* C16: a declined confirm() leaves the remote store and the page as they
\* were, a delete call comes into flight only by a confirmed click, and a
\* successful delete starts renderDashboard('invitees'), which fetches anew.
C16_DeleteNeedsConfirmation ==
  [][\A t \in Tabs :
       /\ \A id \in 1..(NumNames + MaxAdds) :
            AdminDeleteClick(t, id, FALSE) => UNCHANGED <<invitees, rsvps, adm>>
       /\ Cardinality(DeleteCalls(adm'[t])) > Cardinality(DeleteCalls(adm[t]))
            => \E id \in 1..(NumNames + MaxAdds) : AdminDeleteClick(t, id, TRUE)
       /\ \A i \in 1..MaxCalls :
            CallOkStep(t, i, "delete")
              => /\ adm'[t].view = "loading"
                 /\ adm'[t].renders = Append(adm[t].renders, "invitees")]_vars

\* C16 witness: a confirmed delete of a row the store still holds is in flight
C16_Witness ==
  \E i \in DeleteCalls(adm[1]) :
    /\ adm[1].calls[i].live /\ adm[1].view = "invitees"
    /\ \E r \in invitees : r.id = adm[1].calls[i].id

\* the invitee row from which the row with this id was rendered
ShownInvitee(t, id) == CHOOSE r \in adm[t].inviteesShown : r.id = id

\* C17 (as claimed): Save on a row that was rendered with the plus-one box
\* checked, after unchecking the box and with the name input still holding
\* what was rendered, sends the plus_one_name the row was rendered from, so
\* the update leaves the stored name as it was.
C17_UncheckKeepsPlusOneName ==
  [][\A t \in Tabs, id \in 1..(NumNames + MaxAdds) :
       (/\ AdminSaveClick(t, id)
        /\ ShownInvitee(t, id).has_plus_one /\ ~adm[t].rows[id].checked
        /\ adm[t].rows[id].name = RowShown(ShownInvitee(t, id)).name)
         => adm'[t].calls[Len(adm'[t].calls)].plus_one_name
              = ShownInvitee(t, id).plus_one_name]_vars

\* C18: a failed save or delete raises the alert, starts no render and leaves
\* the invitees table as it was; a successful save replaces has_plus_one and
\* plus_one_name of the row with the id of the call and nothing else.
C18_UpdateReplacesTwoFields ==
  [][\A t \in Tabs, i \in 1..MaxCalls :
       /\ (CallFailStep(t, i, "save") \/ CallFailStep(t, i, "delete"))
            => /\ invitees' = invitees /\ rsvps' = rsvps
               /\ adm'[t].alert \in {"save_failed", "delete_failed"}
               /\ adm'[t].view = adm[t].view /\ adm'[t].renders = adm[t].renders
               /\ adm'[t].rows = adm[t].rows
       /\ CallOkStep(t, i, "save")
            => /\ rsvps' = rsvps
               /\ {r.id : r \in invitees'} = {r.id : r \in invitees}
               /\ Cardinality(invitees') = Cardinality(invitees)
               /\ \A r \in invitees :
                    IF r.id = adm[t].calls[i].id
                    THEN [r EXCEPT !.has_plus_one = adm[t].calls[i].has_plus_one,
                                   !.plus_one_name = adm[t].calls[i].plus_one_name]
                           \in invitees'
                    ELSE r \in invitees']_vars

\* C18 witness: with two invitees on the list one save went through (the
\* first invitee lost the plus-one) and another save failed
C18_Witness ==
  /\ adm[1].alert = "save_failed" /\ adm[1].calls = <<>> /\ adm[1].issued = 2
  /\ \E r \in invitees : r.id = 1 /\ ~r.has_plus_one /\ r.last_name = <<"a">>

\* C19 (as claimed): an add with a blank last name issues nothing; a
\* successful add inserts exactly one row with the submitted values; a failed
\* add adds no row, starts no render and leaves the view as it was, and when
\* the page shows the Invitees tab after it, the inline error of the add form
\* is shown.
C19_AddInvitee ==
  [][\A t \in Tabs :
       /\ (AdminAddSubmit(t) /\ Trim(adm[t].newLastName) = <<>>)
            => UNCHANGED <<invitees, adm>>
       /\ \A i \in 1..MaxCalls :
            /\ CallOkStep(t, i, "add")
                 => /\ Cardinality(invitees') = Cardinality(invitees) + 1
                    /\ invitees \subseteq invitees'
                    /\ \A r \in invitees' \ invitees :
                         /\ r.last_name = adm[t].calls[i].last_name
                         /\ r.has_plus_one = adm[t].calls[i].has_plus_one
                         /\ r.plus_one_name = adm[t].calls[i].plus_one_name
            /\ CallFailStep(t, i, "add")
                 => /\ invitees' = invitees
                    /\ adm'[t].view = adm[t].view /\ adm'[t].renders = adm[t].renders
                    /\ adm'[t].view = "invitees" => adm'[t].addError]_vars

\* a step of the admin gate / a step that changes a key of the guest gate
AdminGateStep(t) == AdminLoginSubmit(t) \/ AdminLogoutClick(t)

GuestKeysChange(t) ==
  session'[t].auth # session[t].auth \/ session'[t].last_name # session[t].last_name

\* C20: admin login and logout leave the guest flag and the matched last name
\* as they were, the admin flag changes in no other step, and no step changes
\* keys of both gates; so neither gate's answer follows from the other's.
C20_GatesIndependent ==
  [][\A t \in Tabs :
       /\ AdminGateStep(t) => ~GuestKeysChange(t)
       /\ session'[t].admin # session[t].admin => AdminGateStep(t)
       /\ GuestKeysChange(t) => session'[t].admin = session[t].admin]_vars

\* C20 witness: the guest is authenticated and the admin, who had logged in
\* (a dashboard render is still in flight), has logged out
C20_Witness ==
  /\ IsAuthenticated(1) /\ ~IsAdminAuthenticated(1)
  /\ adm[1].view = "login" /\ Len(adm[1].renders) > 0


\* C25 (as claimed): while #admin-content shows the dashboard (the RSVPs or the
\* Invitees tab), the session store holds the admin flag.
C25_DashboardOnlyForAdmin ==
  \A t \in Tabs :
    adm[t].view \in {"rsvps", "invitees"} => IsAdminAuthenticated(t)

\* C27: in the name-verified version the session store holds the unlock flag
\* exactly when it holds a matched last name, whatever gate submissions,
\* reloads and logouts came before.
C27_FlagIffLastName ==
  \A t \in Tabs :
    variant = "NameVerified"
      => (session[t].auth = "true" <=> session[t].last_name # NULL)

\* C27 witness: the name-verified gate had unlocked and logout() ran while the
\* overlay was still fading out: both keys are gone again
C27_Witness ==
  /\ variant = "NameVerified" /\ gate[1].phase = "exit"
  /\ lastAuth[1] = "logout"
  /\ session[1].auth = "absent" /\ session[1].last_name = NULL

\* the last names of the guest list
InviteeLastNames == {r.last_name : r \in invitees}

\* C28: in the name-correlated version initRsvpForm takes the last name from
\* the session store, an inserted row carries that last name (the empty
\* string if there was none), also when the page that sent it was loaded
\* again before the answer, and the session store only ever holds the last
\* name of an invitee; so every RSVP row has the last name of an invitee or
\* the empty string, whatever the guest typed.
C28_LastNameFromSession ==
  /\ [][\A t \in Tabs :
          /\ (variant = "NameVerified" /\ rsvp'[t].init /\ rsvp'[t] # rsvp[t]
                /\ (~rsvp[t].init \/ rsvp'[t].authLastName # rsvp[t].authLastName))
               => rsvp'[t].authLastName = session[t].last_name
          /\ (variant = "NameVerified" /\ RsvpInsertOk(t))
               => /\ Len(rsvps') = Len(rsvps) + 1
                  /\ SubSeq(rsvps', 1, Len(rsvps)) = rsvps
                  /\ rsvps'[Len(rsvps')].last_name =
                       IF rsvp[t].authLastName = NULL THEN <<>>
                       ELSE rsvp[t].authLastName
          /\ \A i \in 1..MaxRsvps :
               (variant = "NameVerified" /\ OrphanLands(i))
                 => /\ SubSeq(rsvps', 1, Len(rsvps)) = rsvps
                    /\ rsvps'[Len(rsvps')].last_name =
                         IF orphans[i].authLastName = NULL THEN <<>>
                         ELSE orphans[i].authLastName]_vars
  /\ [](variant = "NameVerified"
          => /\ \A t \in Tabs : session[t].last_name \in InviteeLastNames \cup {NULL}
             /\ \A i \in 1..Len(rsvps) :
                  rsvps[i].last_name \in InviteeLastNames \cup {<<>>})

\* C28 witness: a guest who unlocked the gate as invitee "a" sent an RSVP under
\* another name, and the row carries the invitee's last name
C28_Witness ==
  /\ variant = "NameVerified" /\ session[1].last_name = <<"a">>
  /\ \E i \in 1..Len(rsvps) :
       /\ rsvps[i].last_name = <<"a">>
       /\ Lower(rsvps[i].guest_name) # <<"a">>
  /\ rsvp[1].msg \in {"success_yes", "success_no"}


\* C29: an inserted RSVP carries plus_one_attending true or false only if the
\* plus-one section was shown (when the insert is answered, or when the page
\* that sent it was loaded again before the answer); the section comes to be
\* shown only when the guest list holds a row with has_plus_one that the
\* lookup for the session's last name returns; a successful submission leaves
\* the section hidden.
C29_PlusOneOnlyIfShown ==
  [][\A t \in Tabs :
       /\ (RsvpOpen(t) /\ rsvp[t].pc = "insert"
              /\ rsvp[t].req.plus_one_attending \in {"true", "false"})
            => rsvp[t].plusOneShown
       /\ \A i \in 1..MaxRsvps :
            OrphanLands(i)
              => rsvps'[Len(rsvps')].plus_one_attending
                   = orphans[i].req.plus_one_attending
       /\ RsvpInsertOk(t)
            => /\ rsvps'[Len(rsvps')].plus_one_attending \in {"true", "false"}
                    => rsvp[t].plusOneShown
               /\ ~rsvp[t].plusOneShown
                    => rsvps'[Len(rsvps')].plus_one_attending = "undefined"
               /\ ~rsvp'[t].plusOneShown
       /\ (~rsvp[t].plusOneShown /\ rsvp'[t].plusOneShown)
            => \E r \in invitees :
                 /\ r.has_plus_one
                 /\ session[t].last_name # NULL
                 /\ ILike(r.last_name, session[t].last_name) = "TRUE"]_vars

\* C29 witness: the guest with a plus-one answered for the plus-one too, the
\* row is in the store and the section is hidden again
C29_Witness ==
  /\ \E i \in 1..Len(rsvps) : rsvps[i].plus_one_attending = "false"
  /\ rsvp[1].lookup = "done" /\ ~rsvp[1].plusOneShown
  /\ rsvp[1].msg \in {"success_yes", "success_no"}


\* the number of rows of an RSVP table whose last name equals the invitee's
\* ignoring case
MatchingRsvps(table, inv) ==
  Cardinality({i \in 1..Len(table) :
                 /\ table[i].last_name # NULL
                 /\ Lower(table[i].last_name) = Lower(inv.last_name)})

\* C21: each count written on the Invitees tab is the number of rows of the
\* fetched RSVP set whose last name equals the invitee's ignoring case, the
\* fetched RSVP set is the RSVP table as the store holds it when fetchRsvps is
\* answered, and the counts shown agree with the RSVP rows shown; so a new
\* RSVP raises the counts of the invitees it matches, and only those, by one
\* at the next render.
C21_CountPerInvitee ==
  /\ [][\A t \in Tabs, i \in 1..MaxRenders :
          /\ (AdminRenderDone(t, i) /\ adm[t].renders[i] = "invitees")
               => \A inv \in FetchedInvitees(t, i) :
                    adm'[t].counts[inv.id] = MatchingRsvps(FetchedRsvps(t, i), inv)
          /\ AdminFetchAnswer(t, i, "rsvps")
               => adm'[t].fetched[i].rsvps = Reverse(rsvps)]_vars
  /\ [](\A t \in Tabs :
          adm[t].view = "invitees"
            => \A inv \in adm[t].inviteesShown :
                 adm[t].counts[inv.id] = MatchingRsvps(adm[t].rsvpsShown, inv))

\* C21 witness: the guest matched as "a" has sent an RSVP, and the Invitees
\* tab rendered after it counts one for "a" and for "A" and none for "b"
C21_Witness ==
  /\ adm[1].view = "invitees" /\ Len(adm[1].rsvpsShown) = 2
  /\ rsvp[2].msg \in {"success_yes", "success_no"}
  /\ adm[1].counts = (1 :> 1) @@ (2 :> 0) @@ (3 :> 1)

\* the number of rows of an RSVP table with attending = true
AttendingRows(table) == Cardinality({i \in 1..Len(table) : table[i].attending})

\* C22: the statistics written on the RSVPs tab are the number of rows of the
\* RSVP table as fetched, the number with attending = true and the rest, so
\* total = attending + not attending; and a successful RSVP with attending =
\* true makes the table one row and one attending row larger.
C22_StatsAddUp ==
  /\ [][\A t \in Tabs :
          /\ \A i \in 1..MaxRenders :
               (AdminRenderDone(t, i) /\ adm[t].renders[i] = "rsvps")
                 => LET set == FetchedRsvps(t, i) IN
                      /\ adm'[t].stats.total = Len(set)
                      /\ adm'[t].stats.attending = AttendingRows(set)
                      /\ adm'[t].stats.notAttending = Len(set) - AttendingRows(set)
          /\ (RsvpInsertOk(t) /\ rsvp[t].req.attending)
               => /\ Len(rsvps') = Len(rsvps) + 1
                  /\ AttendingRows(rsvps') = AttendingRows(rsvps) + 1]_vars
  /\ [](\A t \in Tabs :
          adm[t].view = "rsvps"
            => /\ adm[t].stats.total = adm[t].stats.attending + adm[t].stats.notAttending
               /\ adm[t].stats.total = Len(adm[t].rsvpsShown)
               /\ adm[t].stats.attending = AttendingRows(adm[t].rsvpsShown))

\* C22 witness: the RSVPs tab rendered after a guest's RSVP with attending =
\* true shows Total 2, Attending 1, Not Attending 1 (before it: 1, 0, 1)
C22_Witness ==
  /\ adm[1].view = "rsvps" /\ rsvp[2].msg = "success_yes"
  /\ adm[1].stats = [total |-> 2, attending |-> 1, notAttending |-> 1]


DashboardTabs == {"rsvps", "invitees"}

\* C23: the tab of every render is RSVPs or Invitees; while the dashboard is
\* shown either tab can be clicked; a tab click and a successful add, save or
\* delete keep nothing of what was shown and start a render with both
\* fetches outstanding; each fetch is answered with the table as the store
\* holds it then, and a render that completes shows its own two answers.
C23_TabSwitchRefetches ==
  /\ [][\A t \in Tabs :
          /\ \A tab \in DashboardTabs :
               AdminTabClick(t, tab)
                 => /\ adm'[t].renders = Append(adm[t].renders, tab)
                    /\ adm'[t].fetched = Append(adm[t].fetched, NoFetch)
                    /\ adm'[t].view = "loading"
                    /\ adm'[t].rsvpsShown = <<>> /\ adm'[t].inviteesShown = {}
          /\ \A i \in 1..MaxCalls :
               AdminCallOk(t, i)
                 => /\ adm'[t].renders = Append(adm[t].renders, "invitees")
                    /\ adm'[t].fetched = Append(adm[t].fetched, NoFetch)
                    /\ adm'[t].view = "loading"
                    /\ adm'[t].rsvpsShown = <<>> /\ adm'[t].inviteesShown = {}
          /\ \A i \in 1..MaxRenders :
               /\ AdminFetchAnswer(t, i, "rsvps")
                    => adm'[t].fetched[i].rsvps = Reverse(rsvps)
               /\ AdminFetchAnswer(t, i, "invitees")
                    => adm'[t].fetched[i].invitees = invitees
               /\ AdminRenderDone(t, i)
                    => /\ adm'[t].view = adm[t].renders[i]
                       /\ adm'[t].rsvpsShown = FetchedRsvps(t, i)
                       /\ adm'[t].view = "invitees"
                            => adm'[t].inviteesShown = FetchedInvitees(t, i)]_vars
  /\ [](\A t \in Tabs :
          /\ \A i \in 1..Len(adm[t].renders) : adm[t].renders[i] \in DashboardTabs
          /\ (AdminOnPage(t) /\ IsAdminAuthenticated(t))
               => adm[t].view \in DashboardTabs \cup {"loading", "failed"}
          /\ (adm[t].view \in DashboardTabs /\ Len(adm[t].renders) < MaxRenders)
               => \A tab \in DashboardTabs : ENABLED AdminTabClick(t, tab))

\* C23 witness: a row was saved, added or deleted from the Invitees tab, and
\* the Invitees tab rendered last shows the table as the store holds it now,
\* which is not the table the page started with
C23_Witness ==
  /\ adm[1].view = "invitees" /\ adm[1].issued > 0 /\ adm[1].calls = <<>>
  /\ adm[1].requested = "invitees" /\ adm[1].renders = <<>>
  /\ adm[1].inviteesShown = invitees /\ invitees # InviteeTable({1})
  /\ adm[1].alert = "" /\ ~adm[1].addError

\* C26 (as claimed): once no render and no call is in flight, the dashboard
\* shown is the tab of the renderDashboard call made last.
C26_LastRequestedRenderWins ==
  \A t \in Tabs :
    (adm[t].renders = <<>> /\ adm[t].calls = <<>> /\ adm[t].view \in DashboardTabs)
      => adm[t].view = adm[t].requested


\* C24: in a build whose endpoint URL or anon key is not set, the site fails
\* when it is loaded and never runs: no lookup, fetch, insert, update or
\* delete is in flight in any tab, and the remote tables stay as they were.
C24_NoClientNoRequests ==
  (config.url = NULL \/ config.key = NULL)
    => /\ \A t \in Tabs :
            /\ app[t] \in {"closed", "failed"}
            /\ gate[t].phase = "none"
            /\ rsvp[t].pc = "idle" /\ rsvp[t].lookup = "none"
            /\ adm[t].renders = <<>> /\ adm[t].calls = <<>>
       /\ orphans = <<>>
       /\ rsvps = <<>> /\ invitees = PlusOneGuests

\* C24 witness: a build with the URL but without the key was opened at the
\* admin page in a tab whose session store holds the admin flag, and failed
C24_Witness ==
  /\ config.url = ConfigFull.url /\ config.key = NULL
  /\ app[1] = "failed" /\ hash[1] = <<"#", "/", "admin">>
  /\ IsAdminAuthenticated(1)

====
